---------------------------- MODULE Spec2Model ----------------------------
(***************************************************************************)
(* Model of the fund analytics engine of ayaxan7/bewiser:                  *)
(*   app/services/benchmark_service.py   (comparator, ratios, scorer)      *)
(*   app/services/fund_analysis_service.py (ranking pipeline)              *)
(*   app/services/metrics_service.py, data_service.py, utils/helpers.py    *)
(*                                                                         *)
(* Values.  A Python value that a metric can take is a record:             *)
(*   [k |-> "absent"]  the key is not in the dict                          *)
(*   [k |-> "none"]    the key is there and holds None                     *)
(*   [k |-> "nan"]     a float NaN                                         *)
(*   [k |-> "num", n, d]  the exact rational n/d (d > 0, lowest terms)     *)
(* Floating point is modelled by exact rational arithmetic; round() is     *)
(* round-half-to-even on the exact value.                                  *)
(***************************************************************************)
EXTENDS Integers, Sequences, FiniteSets, TLC

VARIABLES
    \* ---- get_benchmark_recommendation (one call) ----
    metrics,          \* the MetricsBag handed to the scorer
    recommendation,   \* what the call produced: pending / returned / raised
    \* ---- analyze_funds / analyze_funds_with_benchmark (one batch) ----
    mode,             \* "plain" (analyze_funds) or "benchmark"
    pc,               \* position of the batch: start, loop, done, raised
    top_funds,        \* number of funds fetch_all_funds listed (codes 1..n)
    idx,              \* index of the next fund of the for loop
    fetched,          \* per listed fund, what the sources returned for it
    results,          \* the results list
    raisedBy,         \* which call raised when pc = "raised"
    \* ---- calculate_benchmark_metrics, several calls in flight ----
    rng,              \* numpy's process-wide generator (np.random)
    calls,            \* per caller: the frames passed in and the call's locals
    \* ---- calculate_benchmark_metrics on concrete series (one call) ----
    fund_df,          \* the fund NAV series passed in
    benchmark_df,     \* the benchmark NAV series passed in
    benchmark_metrics, \* the returned metrics bag, or pending
    \* ---- metrics_service: one call of one function ----
    df,               \* the NAV series passed in
    metric_call,      \* the call made: function, arguments and result
    \* ---- fetch_nifty50_data (one call) ----
    nifty,            \* the call's environment, position and result
    \* ---- get_smart_recommendations (one call) ----
    advice,           \* the call's arguments, the analysed funds and the result
    \* ---- calculate_benchmark_metrics: the period loop on a long table ----
    period_call,      \* the aligned table (in closed form) and the keys written
    \* ---- calculate_risk_adjusted_metrics (one call) ----
    risk_adjusted     \* the returned metrics bag, or pending

scoreVars == <<metrics, recommendation>>
batchVars == <<mode, pc, top_funds, idx, fetched, results, raisedBy>>
concVars == <<rng, calls>>
benchVars == <<fund_df, benchmark_df, benchmark_metrics>>
metricVars == <<df, metric_call>>
comparatorVars == <<period_call, risk_adjusted>>
serviceVars == <<df, metric_call, nifty, advice, period_call, risk_adjusted>>
vars == <<metrics, recommendation, mode, pc, top_funds, idx, fetched,
          results, raisedBy, rng, calls, fund_df, benchmark_df,
          benchmark_metrics, df, metric_call, nifty, advice, period_call,
          risk_adjusted>>

-----------------------------------------------------------------------------
(* Exact rationals *)

Abs(x) == IF x < 0 THEN -x ELSE x

RECURSIVE Gcd(_, _)
Gcd(a, b) == IF b = 0 THEN a ELSE Gcd(b, a % b)

Absent == [k |-> "absent"]
NoneV  == [k |-> "none"]
NaN    == [k |-> "nan"]

\* n/d in lowest terms with a positive denominator
Rat(n, d) ==
    LET s == IF d < 0 THEN -1 ELSE 1
        g == Gcd(Abs(n), Abs(d))
    IN  [k |-> "num", n |-> (s * n) \div g, d |-> (s * d) \div g]

Num(i) == Rat(i, 1)

IsNum(v) == v.k = "num"

\* Python's  a < b  on floats: False as soon as one side is NaN
NumLt(a, b) == IsNum(a) /\ IsNum(b) /\ a.n * b.d < b.n * a.d
NumGt(a, b) == NumLt(b, a)
NumGe(a, b) == IsNum(a) /\ IsNum(b) /\ a.n * b.d >= b.n * a.d
\* Python's  a == b  on two distinct float objects: NaN equals nothing
NumEq(a, b) == IsNum(a) /\ IsNum(b) /\ a.n * b.d = b.n * a.d

RSub(a, b) == Rat(a.n * b.d - b.n * a.d, a.d * b.d)
RAdd(a, b) == Rat(a.n * b.d + b.n * a.d, a.d * b.d)
RMul(a, b) == Rat(a.n * b.n, a.d * b.d)
RDiv(a, b) == Rat(a.n * b.d, a.d * b.n)

\* floor(n/d) for d > 0 (TLA+ \div already floors)
Floor(n, d) == n \div d

\* round-half-to-even of n/d (d > 0) to an integer: Python 3 round()
RoundHalfEven(n, d) ==
    LET q == Floor(n, d)
        r2 == 2 * (n - q * d)
    IN  IF r2 < d THEN q
        ELSE IF r2 > d THEN q + 1
        ELSE IF q % 2 = 0 THEN q ELSE q + 1

Pow10(nd) == IF nd = 0 THEN 1 ELSE IF nd = 1 THEN 10 ELSE IF nd = 2 THEN 100 ELSE 1000

\* floor(n * 10^nd / d) and the remainder, digit by digit (d > 0)
RECURSIVE ScaledFloor(_, _, _)
ScaledFloor(n, d, nd) ==
    IF nd = 0 THEN [q |-> Floor(n, d), r |-> n - Floor(n, d) * d]
    ELSE LET s == ScaledFloor(n, d, nd - 1)
         IN  [q |-> s.q * 10 + Floor(s.r * 10, d), r |-> (s.r * 10) % d]

\* round(x, nd) for nd in 0..3, half to even; round(nan, nd) is nan
Round(x, nd) ==
    IF x.k = "nan" THEN NaN
    ELSE LET s == ScaledFloor(x.n, x.d, nd)
         IN  Rat(s.q + RoundHalfEven(s.r + (s.q % 2) * x.d, x.d) - (s.q % 2),
                 Pow10(nd))


-----------------------------------------------------------------------------
(* get_benchmark_recommendation: benchmark_service.py 396-465 *)

OutperformanceKeys ==
    {"outperformance_1y_pct", "outperformance_2y_pct",
     "outperformance_3y_pct", "outperformance_5y_pct"}

\* 'key' in metrics
HasKey(m, key) == m[key].k # "absent"

\* Python 3:  None > number  raises TypeError
CompareRaises(v) == v.k = "none"

NoFactor == [raised |-> FALSE, delta |-> 0, f |-> <<>>]
Raised   == [raised |-> TRUE, delta |-> 0, f |-> <<>>]
Factor(delta, tag) == [raised |-> FALSE, delta |-> delta, f |-> <<tag>>]

\* a slip of the first threshold: alpha >= 3 instead of alpha > 3
AlphaFactorGe(m) ==
    IF ~HasKey(m, "alpha_pct") THEN NoFactor
    ELSE LET alpha == m["alpha_pct"] IN
         IF CompareRaises(alpha) THEN Raised
         ELSE IF NumGe(alpha, Num(3)) THEN Factor(3, "Strong alpha")
         ELSE IF NumGt(alpha, Num(0)) THEN Factor(1, "Positive alpha")
         ELSE Factor(-1, "Negative alpha")

\* lines 401-412
AlphaFactor(m) ==
    IF ~HasKey(m, "alpha_pct") THEN NoFactor
    ELSE LET alpha == m["alpha_pct"] IN
         IF CompareRaises(alpha) THEN Raised
         ELSE IF NumGt(alpha, Num(3)) THEN Factor(3, "Strong alpha")
         ELSE IF NumGt(alpha, Num(0)) THEN Factor(1, "Positive alpha")
         ELSE Factor(-1, "Negative alpha")

\* lines 414-425
InformationRatioFactor(m) ==
    IF ~HasKey(m, "information_ratio") THEN NoFactor
    ELSE LET ir == m["information_ratio"] IN
         IF CompareRaises(ir) THEN Raised
         ELSE IF NumGt(ir, Rat(1, 2)) THEN Factor(2, "Excellent information ratio")
         ELSE IF NumGt(ir, Num(0)) THEN Factor(1, "Positive information ratio")
         ELSE Factor(-1, "Poor information ratio")

\* lines 427-433:  sharpe > 1 and treynor > 0.1  (and short-circuits: treynor is
\* compared only when sharpe > 1 is true)
RiskAdjustedFactor(m) ==
    IF ~(HasKey(m, "sharpe_ratio") /\ HasKey(m, "treynor_ratio")) THEN NoFactor
    ELSE LET sharpe == m["sharpe_ratio"]
             treynor == m["treynor_ratio"] IN
         IF CompareRaises(sharpe) THEN Raised
         ELSE IF ~NumGt(sharpe, Num(1)) THEN NoFactor
         ELSE IF CompareRaises(treynor) THEN Raised
         ELSE IF NumGt(treynor, Rat(1, 10))
              THEN Factor(2, "Strong risk-adjusted returns")
              ELSE NoFactor

\* lines 435-449
OutperformanceFactor(m) ==
    LET outperformance_periods == {key \in OutperformanceKeys : HasKey(m, key)}
        positive_outperformance ==
            Cardinality({p \in outperformance_periods : NumGt(m[p], Num(0))})
        n == Cardinality(outperformance_periods)
    IN  IF \E p \in outperformance_periods : CompareRaises(m[p]) THEN Raised
        ELSE IF n = 0 THEN NoFactor
        ELSE IF 4 * positive_outperformance >= 3 * n
             THEN Factor(2, "Consistent outperformance")
        ELSE IF 2 * positive_outperformance >= n
             THEN Factor(1, "Generally outperforms")
        ELSE Factor(-1, "Inconsistent benchmark performance")

\* lines 451-463
RecommendationLabel(score) ==
    IF score >= 5 THEN "STRONG BUY"
    ELSE IF score >= 3 THEN "BUY"
    ELSE IF score >= 0 THEN "HOLD"
    ELSE "AVOID"

Min(a, b) == IF a < b THEN a ELSE b

\* lines 396-465; the returned string is the label, its fixed reason and the
\* first three factors
get_benchmark_recommendation(m) ==
    LET a == AlphaFactor(m)
        i == InformationRatioFactor(m)
        s == RiskAdjustedFactor(m)
        o == OutperformanceFactor(m)
        score == a.delta + i.delta + s.delta + o.delta
        recommendation_factors == a.f \o i.f \o s.f \o o.f
    IN  IF a.raised \/ i.raised \/ s.raised \/ o.raised
        THEN [outcome |-> "raised", label |-> "TypeError", factors |-> <<>>]
        ELSE [outcome |-> "returned",
              label |-> RecommendationLabel(score),
              factors |-> SubSeq(recommendation_factors, 1,
                                 Min(3, Len(recommendation_factors)))]

Pending == [outcome |-> "pending", label |-> "", factors |-> <<>>]

-----------------------------------------------------------------------------
(* SpecScore: one call of the scorer on a bag drawn from bounded sets *)

AlphaValues   == {Absent, NoneV, Num(-1), Num(0), Rat(5, 2), Num(3), Num(4)}
IRValues      == {Absent, NoneV, Rat(-1, 10), Num(0), Rat(1, 2), Rat(3, 5)}
SharpeValues  == {Absent, NoneV, Num(1), Rat(6, 5)}
TreynorValues == {Absent, NoneV, Rat(1, 10), Rat(3, 20)}
OutperfValues == {Absent, NoneV, Num(0), Num(2)}

MetricsBags ==
    [alpha_pct : AlphaValues, information_ratio : IRValues,
     sharpe_ratio : SharpeValues, treynor_ratio : TreynorValues,
     outperformance_1y_pct : OutperfValues, outperformance_2y_pct : OutperfValues,
     outperformance_3y_pct : OutperfValues, outperformance_5y_pct : OutperfValues]

EmptyBag ==
    [alpha_pct |-> Absent, information_ratio |-> Absent,
     sharpe_ratio |-> Absent, treynor_ratio |-> Absent,
     outperformance_1y_pct |-> Absent, outperformance_2y_pct |-> Absent,
     outperformance_3y_pct |-> Absent, outperformance_5y_pct |-> Absent]

BatchIdle ==
    /\ mode = "plain"
    /\ pc = "idle"
    /\ top_funds = 0
    /\ idx = 0
    /\ fetched = <<>>
    /\ results = <<>>
    /\ raisedBy = "nothing"

\* numpy seeds its global generator from OS entropy at import
UnseededRng == [seed |-> "entropy", pos |-> 0]

ConcIdle ==
    /\ rng = UnseededRng
    /\ calls = <<>>

BenchIdle ==
    /\ fund_df = <<>>
    /\ benchmark_df = <<>>
    /\ benchmark_metrics = [outcome |-> "idle"]

MetricsIdle ==
    /\ df = <<>>
    /\ metric_call = [fn |-> "none"]

NiftyIdle == nifty = [pc |-> "idle"]

AdvisorIdle == advice = [pc |-> "idle"]

ComparatorIdle ==
    /\ period_call = [pc |-> "idle"]
    /\ risk_adjusted = [outcome |-> "idle"]

ServicesIdle == MetricsIdle /\ NiftyIdle /\ AdvisorIdle /\ ComparatorIdle

InitScore ==
    /\ metrics \in MetricsBags
    /\ recommendation = Pending
    /\ BatchIdle
    /\ ConcIdle
    /\ BenchIdle
    /\ ServicesIdle

Recommend ==
    /\ recommendation.outcome = "pending"
    /\ pc = "idle"
    /\ recommendation' = get_benchmark_recommendation(metrics)
    /\ UNCHANGED <<metrics, batchVars, concVars, benchVars, serviceVars>>

NextScore == Recommend

SpecScore == InitScore /\ [][NextScore]_vars

-----------------------------------------------------------------------------
(* Claims about the scorer (SpecScore) *)

\* The additive score table of the specification, row by row
TableAlpha(m) ==
    IF ~IsNum(m.alpha_pct) THEN 0
    ELSE IF NumGt(m.alpha_pct, Num(3)) THEN 3
    ELSE IF NumGt(m.alpha_pct, Num(0)) THEN 1
    ELSE -1

TableIR(m) ==
    IF ~IsNum(m.information_ratio) THEN 0
    ELSE IF NumGt(m.information_ratio, Rat(1, 2)) THEN 2
    ELSE IF NumGt(m.information_ratio, Num(0)) THEN 1
    ELSE -1

TableRiskAdjusted(m) ==
    IF NumGt(m.sharpe_ratio, Num(1)) /\ NumGt(m.treynor_ratio, Rat(1, 10))
    THEN 2 ELSE 0

TableOutperformance(m) ==
    LET defined == {key \in OutperformanceKeys : IsNum(m[key])}
        positive == {key \in defined : m[key].n > 0}
        n == Cardinality(defined)
        p == Cardinality(positive)
    IN  IF n = 0 THEN 0
        ELSE IF 4 * p >= 3 * n THEN 2
        ELSE IF 2 * p >= n THEN 1
        ELSE -1

TableScore(m) ==
    TableAlpha(m) + TableIR(m) + TableRiskAdjusted(m) + TableOutperformance(m)

\* C1: whenever get_benchmark_recommendation returns, its label is the one the
\* score table fixes: STRONG BUY iff score >= 5, BUY iff 3 <= score < 5,
\* HOLD iff 0 <= score < 3, AVOID iff score < 0.
C1_LabelFollowsScoreTable ==
    recommendation.outcome = "returned" =>
        LET score == TableScore(metrics) IN
        /\ (recommendation.label = "STRONG BUY") <=> (score >= 5)
        /\ (recommendation.label = "BUY") <=> (3 <= score /\ score < 5)
        /\ (recommendation.label = "HOLD") <=> (0 <= score /\ score < 3)
        /\ (recommendation.label = "AVOID") <=> (score < 0)

\* C1 witness: the specification's scenario {alpha_pct 4, information_ratio
\* 0.6, two positive outperformance keys} has been scored: 7, STRONG BUY.
C1_Witness ==
    /\ metrics = [EmptyBag EXCEPT !.alpha_pct = Num(4),
                                  !.information_ratio = Rat(3, 5),
                                  !.outperformance_1y_pct = Num(2),
                                  !.outperformance_2y_pct = Num(2)]
    /\ TableScore(metrics) = 7
    /\ recommendation.outcome = "returned"
    /\ recommendation.label = "STRONG BUY"

\* The bags analyze_funds_with_benchmark builds (fund_analysis_service.py
\* 50-54): sharpe_ratio is always a key, holding None when Sharpe is undefined;
\* every other metric is either absent or a number.
PipelineShapedBag(m) ==
    /\ m.sharpe_ratio # Absent
    /\ \A key \in (DOMAIN m) \ {"sharpe_ratio"} : m[key] # NoneV

\* C2 (as claimed): scoring never fails on missing metrics; in particular on the
\* bag built by analyze_funds_with_benchmark, whose sharpe_ratio entry may hold
\* None, get_benchmark_recommendation returns a label without raising.
C2_NeverRaisesOnMissing ==
    (recommendation.outcome # "pending" /\ PipelineShapedBag(metrics))
        => recommendation.outcome = "returned"

-----------------------------------------------------------------------------
(* The ranking pipeline: fund_analysis_service.py *)

RISK_FREE_RATE == Rat(7, 100)          \* main.py 13 (app.config.settings)

\* Variant of calculate_sharpe without the volatility == 0 test: the division
\* by a zero numpy float gives an infinity
calculate_sharpe_unguarded(cagr, volatility) ==
    IF cagr = NoneV \/ volatility = NoneV THEN NoneV
    ELSE IF cagr = NaN \/ volatility = NaN THEN NaN
    ELSE IF NumEq(volatility, Num(0)) THEN [k |-> "inf", sign |-> 1]
    ELSE RDiv(RSub(cagr, RISK_FREE_RATE), volatility)

\* metrics_service.py 22-26.  volatility == 0 is False for NaN, and any
\* arithmetic with NaN gives NaN.
calculate_sharpe(cagr, volatility) ==
    IF cagr = NoneV \/ volatility = NoneV \/ NumEq(volatility, Num(0))
    THEN NoneV
    ELSE IF cagr = NaN \/ volatility = NaN THEN NaN
    ELSE RDiv(RSub(cagr, RISK_FREE_RATE), volatility)

\* helpers.py 4-6:  round(x * mult, nd) if x is not None else None
r(x) ==
    IF x = NoneV THEN NoneV
    ELSE IF x = NaN THEN NaN
    ELSE Round(RMul(x, Num(100)), 2)

\* fund_analysis_service.py 75 / 148
RoundSharpe(sharpe) == IF sharpe = NoneV THEN NoneV ELSE Round(sharpe, 2)

(***************************************************************************)
(* What the sources and the numeric kernels hand to one loop iteration.    *)
(* The NAV series itself is kept as its row count class and the values the *)
(* statistics functions return for it:                                     *)
(*   rows "empty": fetch_nav_history returned an empty frame               *)
(*   rows "one":   one observation; volatility and both CAGRs are None     *)
(*                 (len(df) < 2), both metric bags are {}                  *)
(*   rows "two":   one periodic return; pandas' sample standard deviation  *)
(*                 of a single value is NaN, so volatility is NaN; the     *)
(*                 comparator returns {} (fewer than 2 returns)            *)
(*   rows "more":  three or more observations                              *)
(* fetch "error": requests raised (timeout, raise_for_status).             *)
(***************************************************************************)
NoBench == [alpha_pct |-> Absent, information_ratio |-> Absent,
            treynor_ratio |-> Absent]

ErrorResponse ==
    [fetch |-> "error", rows |-> "empty", vol |-> NoneV, cagr_3y |-> NoneV,
     cagr_all |-> NoneV, bench |-> NoBench]

OkResponse(rows, vol, c3, call, bench) ==
    [fetch |-> "ok", rows |-> rows, vol |-> vol, cagr_3y |-> c3,
     cagr_all |-> call, bench |-> bench]

\* benchmark_metrics merged with risk_adjusted_metrics for a fund with three or
\* more rows: {} when no two dates match the benchmark's; otherwise alpha_pct
\* and information_ratio, with treynor_ratio when beta is not 0.
\* alpha_pct -1008 is a fund losing 4% a day (mean return -0.04 * 252 * 100).
BenchBags ==
    {NoBench}
    \cup
    {[alpha_pct |-> ai[1], information_ratio |-> ai[2], treynor_ratio |-> t] :
        ai \in {<<Num(-1008), Num(-2)>>, <<Rat(5, 2), Rat(3, 5)>>},
        t \in {Absent, Rat(3, 20)}}

NavResponses(m) ==
    {ErrorResponse,
     OkResponse("empty", NoneV, NoneV, NoneV, NoBench),
     OkResponse("one", NoneV, NoneV, NoneV, NoBench)}
    \cup {OkResponse("two", NaN, c3, Rat(17, 100), NoBench) :
            c3 \in {NoneV, Rat(17, 100)}}
    \cup {OkResponse("more", v, c3, Rat(17, 100), b) :
            v \in {Num(0), Rat(1, 10)},
            c3 \in {NoneV, Rat(27, 100)},
            b \in IF m = "benchmark" THEN BenchBags ELSE {NoBench}}

\* A narrow universe for long fund lists: Sharpe NaN, 1.0 and 2.0
RankResponses(m) ==
    {OkResponse("two", NaN, Rat(17, 100), Rat(17, 100), NoBench),
     OkResponse("more", Rat(1, 10), Rat(17, 100), Rat(17, 100),
                IF m = "benchmark"
                THEN [alpha_pct |-> Rat(5, 2), information_ratio |-> Rat(3, 5),
                      treynor_ratio |-> Absent]
                ELSE NoBench),
     OkResponse("more", Rat(1, 10), Rat(27, 100), Rat(17, 100),
                IF m = "benchmark"
                THEN [alpha_pct |-> Rat(5, 2), information_ratio |-> Rat(3, 5),
                      treynor_ratio |-> Absent]
                ELSE NoBench)}

\* fund_analysis_service.py 25-26 / 108-109
SkipsFundNever(resp) == FALSE

SkipsFund(resp) == resp.rows = "empty"

\* Variant of FundSharpe that prefers the full-period CAGR
FundSharpeFullFirst(resp) ==
    calculate_sharpe(IF resp.cagr_all # NoneV THEN resp.cagr_all ELSE resp.cagr_3y,
                     resp.vol)

\* fund_analysis_service.py 43 / 128
FundSharpe(resp) ==
    calculate_sharpe(IF resp.cagr_3y # NoneV THEN resp.cagr_3y ELSE resp.cagr_all,
                     resp.vol)

\* fund_analysis_service.py 50-54
combined_metrics(resp) ==
    [EmptyBag EXCEPT !.alpha_pct = resp.bench.alpha_pct,
                     !.information_ratio = resp.bench.information_ratio,
                     !.treynor_ratio = resp.bench.treynor_ratio,
                     !.sharpe_ratio = FundSharpe(resp)]

\* fund_analysis_service.py 57-84 (benchmark mode) and 130-150 (plain mode)
FundResult(m, code, resp) ==
    [scheme_code |-> code,
     cagr_full_pct |-> r(resp.cagr_all),
     cagr_3y_pct |-> r(resp.cagr_3y),
     volatility_pct |-> r(resp.vol),
     sharpe_ratio |-> RoundSharpe(FundSharpe(resp)),
     alpha_pct |-> IF m = "benchmark" THEN resp.bench.alpha_pct ELSE Absent,
     information_ratio |->
         IF m = "benchmark" THEN resp.bench.information_ratio ELSE Absent,
     treynor_ratio |->
         IF m = "benchmark" THEN resp.bench.treynor_ratio ELSE Absent,
     recommendation |->
         IF m = "benchmark"
         THEN get_benchmark_recommendation(combined_metrics(resp)).label
         ELSE ""]

-----------------------------------------------------------------------------
(* results.sort(key=..., reverse=True) *)

BENCHMARK_SENTINEL == -999             \* fund_analysis_service.py 91-93
PLAIN_SENTINEL == -1000000000          \* fund_analysis_service.py 155-156 (-1e9)

\* x[k] if x[k] is not None else sentinel   /   x.get(k, sentinel)
OrSentinel(v, sentinel) ==
    IF v = NoneV \/ v = Absent THEN Num(sentinel) ELSE v

\* the key lambdas: fund_analysis_service.py 90-94 and 154-157
SortKey(m, x) ==
    IF m = "benchmark"
    THEN <<OrSentinel(x.alpha_pct, BENCHMARK_SENTINEL),
           OrSentinel(x.information_ratio, BENCHMARK_SENTINEL),
           OrSentinel(x.sharpe_ratio, BENCHMARK_SENTINEL)>>
    ELSE <<OrSentinel(x.sharpe_ratio, PLAIN_SENTINEL),
           OrSentinel(x.cagr_3y_pct, PLAIN_SENTINEL)>>

\* Python's tuple  a < b : the first position where the items are not ==
\* decides by <; equal tuples of the same length are not less.
RECURSIVE TupleLtFrom(_, _, _)
TupleLtFrom(a, b, i) ==
    IF i > Len(a) THEN FALSE
    ELSE IF NumEq(a[i], b[i]) THEN TupleLtFrom(a, b, i + 1)
    ELSE NumLt(a[i], b[i])

TupleLt(a, b) == TupleLtFrom(a, b, 1)

Reverse(s) == [i \in 1..Len(s) |-> s[Len(s) + 1 - i]]

(***************************************************************************)
(* list.sort of CPython (Objects/listobject.c) on fewer than 64 items, as  *)
(* fetch_all_funds caps the list at 33: the leading run is counted         *)
(* (count_run), reversed when strictly descending, and the remaining items *)
(* are placed by binary insertion (binarysort).  Items are <<key, value>>. *)
(***************************************************************************)
RECURSIVE RunLength(_, _, _)
\* extends the run s[1..n] while its direction holds
RunLength(s, n, descending) ==
    IF n >= Len(s) THEN n
    ELSE IF TupleLt(s[n + 1][1], s[n][1]) = descending
         THEN RunLength(s, n + 1, descending)
         ELSE n

CountRun(s) ==
    IF Len(s) <= 1 THEN [n |-> Len(s), descending |-> FALSE]
    ELSE LET descending == TupleLt(s[2][1], s[1][1])
         IN  [n |-> RunLength(s, 2, descending), descending |-> descending]

RECURSIVE BinarySearch(_, _, _, _)
\* the insertion point of pivot in s[lo+1 .. hi] (0-based, as in binarysort)
BinarySearch(s, pivot, lo, hi) ==
    IF lo >= hi THEN lo
    ELSE LET p == lo + ((hi - lo) \div 2)
         IN  IF TupleLt(pivot[1], s[p + 1][1])
             THEN BinarySearch(s, pivot, lo, p)
             ELSE BinarySearch(s, pivot, p + 1, hi)

RECURSIVE BinarySort(_, _)
\* s[1..start] is sorted; insert s[start+1], s[start+2], ...
BinarySort(s, start) ==
    IF start >= Len(s) THEN s
    ELSE LET pivot == s[start + 1]
             l == BinarySearch(s, pivot, 0, start)
             placed == SubSeq(s, 1, l) \o <<pivot>> \o SubSeq(s, l + 1, start)
                       \o SubSeq(s, start + 2, Len(s))
         IN  BinarySort(placed, start + 1)

ListSortAscending(s) ==
    LET run == CountRun(s)
        head == SubSeq(s, 1, run.n)
        tail == SubSeq(s, run.n + 1, Len(s))
        ordered == IF run.descending THEN Reverse(head) ELSE head
    IN  BinarySort(ordered \o tail, run.n)

\* reverse=True: the list is reversed, sorted ascending and reversed again
SortResults(m, list) ==
    LET keyed == [i \in 1..Len(list) |-> <<SortKey(m, list[i]), list[i]>>]
        sorted == Reverse(ListSortAscending(Reverse(keyed)))
    IN  [i \in 1..Len(list) |-> sorted[i][2]]

-----------------------------------------------------------------------------
(* One batch: analyze_funds (plain) or analyze_funds_with_benchmark *)

MaxFunds == 3
MaxRankFunds == 7

InitBatch ==
    /\ mode \in {"plain", "benchmark"}
    /\ pc = "start"
    /\ top_funds = 0
    /\ idx = 0
    /\ fetched = <<>>
    /\ results = <<>>
    /\ raisedBy = "nothing"
    /\ metrics = EmptyBag
    /\ recommendation = Pending
    /\ ConcIdle
    /\ BenchIdle
    /\ ServicesIdle

\* fetch_all_funds() raises (requests error, raise_for_status): the batch fails
FetchAllFundsFails ==
    /\ pc = "start"
    /\ pc' = "raised"
    /\ raisedBy' = "fetch_all_funds"
    /\ UNCHANGED <<mode, top_funds, idx, fetched, results, scoreVars,
                   concVars, benchVars, serviceVars>>

\* fetch_all_funds() returns the list (and, in benchmark mode,
\* fetch_nifty50_data() returns the benchmark series)
FetchAllFunds(max) ==
    /\ pc = "start"
    /\ \E n \in 0..max : top_funds' = n
    /\ idx' = 1
    /\ pc' = "loop"
    /\ UNCHANGED <<mode, fetched, results, raisedBy, scoreVars, concVars,
                   benchVars, serviceVars>>

\* one iteration of  for fund in top_funds
AnalyzeFund(responses) ==
    /\ pc = "loop"
    /\ idx <= top_funds
    /\ \E resp \in responses :
        /\ fetched' = Append(fetched, resp)
        /\ IF resp.fetch = "error"
           THEN /\ pc' = "raised"
                /\ raisedBy' = "fetch_nav_history"
                /\ UNCHANGED <<idx, results>>
           ELSE IF SkipsFund(resp)
           THEN /\ idx' = idx + 1
                /\ UNCHANGED <<pc, raisedBy, results>>
           ELSE IF /\ mode = "benchmark"
                   /\ get_benchmark_recommendation(combined_metrics(resp)).outcome
                        = "raised"
           THEN /\ pc' = "raised"
                /\ raisedBy' = "get_benchmark_recommendation"
                /\ UNCHANGED <<idx, results>>
           ELSE /\ results' = Append(results, FundResult(mode, idx, resp))
                /\ idx' = idx + 1
                /\ UNCHANGED <<pc, raisedBy>>
    /\ UNCHANGED <<mode, top_funds, scoreVars, concVars, benchVars,
                   serviceVars>>

\* the loop is over: results.sort(...); return results
SortAndReturn ==
    /\ pc = "loop"
    /\ idx > top_funds
    /\ results' = SortResults(mode, results)
    /\ pc' = "done"
    /\ UNCHANGED <<mode, top_funds, idx, fetched, raisedBy, scoreVars,
                   concVars, benchVars, serviceVars>>

Next ==
    \/ FetchAllFundsFails
    \/ FetchAllFunds(MaxFunds)
    \/ AnalyzeFund(NavResponses(mode))
    \/ SortAndReturn

Spec == InitBatch /\ [][Next]_vars

NextRank ==
    \/ FetchAllFundsFails
    \/ FetchAllFunds(MaxRankFunds)
    \/ AnalyzeFund(RankResponses(mode))
    \/ SortAndReturn

SpecRank == InitBatch /\ [][NextRank]_vars

-----------------------------------------------------------------------------
(* Claims about the ranking pipeline (Spec, SpecRank) *)

\* "no value" in a result record: the key is absent or holds None
Missing(v) == v = Absent \/ v = NoneV

\* x must be placed strictly before y on one component of the ranking tuple:
\* a defined value before a missing one, the larger of two numbers first
ComponentBefore(x, y) ==
    \/ IsNum(x) /\ Missing(y)
    \/ NumGt(x, y)

\* x and y tie on a component: both missing, or the same number
ComponentTie(x, y) ==
    \/ Missing(x) /\ Missing(y)
    \/ NumEq(x, y)

BenchmarkTuple(x) == <<x.alpha_pct, x.information_ratio, x.sharpe_ratio>>
PlainTuple(x) == <<x.sharpe_ratio, x.cagr_3y_pct>>

\* lexicographic "x ranks strictly before y" on the tuples a and b
RanksBefore(a, b) ==
    \E i \in 1..Len(a) :
        /\ ComponentBefore(a[i], b[i])
        /\ \A j \in 1..(i - 1) : ComponentTie(a[j], b[j])

RankTuple(x) == IF mode = "benchmark" THEN BenchmarkTuple(x) ELSE PlainTuple(x)

\* C3 (as claimed): in benchmark mode the returned list is descending by
\* (alpha_pct, information_ratio, sharpe_ratio) with missing values last: no
\* fund is placed after a fund it ranks before; in particular no fund without
\* alpha_pct precedes a fund with a defined alpha_pct.
C3_BenchmarkOrderMissingLast ==
    (pc = "done" /\ mode = "benchmark") =>
        \A i, j \in 1..Len(results) :
            i < j => ~RanksBefore(BenchmarkTuple(results[j]),
                                  BenchmarkTuple(results[i]))

\* C4 (as claimed): in plain mode the returned list is descending by
\* (sharpe_ratio, cagr_3y_pct), the sort does not raise, and no fund whose
\* sharpe_ratio is None precedes a fund whose sharpe_ratio is defined.
C4_PlainOrderMissingLast ==
    (pc = "done" /\ mode = "plain") =>
        \A i, j \in 1..Len(results) :
            i < j => ~RanksBefore(PlainTuple(results[j]),
                                  PlainTuple(results[i]))

\* C5 (as claimed): the ranking is stable in both modes: two funds whose
\* sort-key tuples are equal (all-missing keys included) keep the order in
\* which the fund-universe source listed them.
C5_StableRanking ==
    pc = "done" =>
        \A i, j \in 1..Len(results) :
            (/\ i < j
             /\ \A c \in 1..Len(RankTuple(results[i])) :
                    ComponentTie(RankTuple(results[i])[c],
                                 RankTuple(results[j])[c]))
            => results[i].scheme_code < results[j].scheme_code

\* C6 (as claimed): once the fund list was obtained, a failed NAV fetch of one
\* fund does not fail the batch.
C6_NavFetchFailureDoesNotFailBatch ==
    (\E i \in 1..Len(fetched) : fetched[i].fetch = "error") => pc # "raised"

\* the listed funds whose NAV history came back non-empty
NonEmptyFunds ==
    {i \in 1..Len(fetched) :
        fetched[i].fetch = "ok" /\ fetched[i].rows # "empty"}

-----------------------------------------------------------------------------
(* calculate_benchmark_metrics with several calls in flight:                *)
(* benchmark_service.py 165-252.  Each caller passes its own fund frame;    *)
(* np.random is one generator for the whole process.                        *)

MIN_OVERLAP == 10                      \* benchmark_service.py 199
NumCallers == 2
MaxShortRows == 3

Callers == 1..NumCallers

\* A fund frame: its number of rows, whether its date range overlaps the
\* benchmark's, the days between its first and last row, and whether its dates
\* carry a timezone.  Frames outside the benchmark's range have at most
\* MaxShortRows rows.
FundFrames ==
    {f \in [rows : (0..MaxShortRows) \cup {MIN_OVERLAP},
            overlapping : BOOLEAN,
            fund_days : {0, 30},
            tz : {"naive", "aware"}] :
        /\ (f.rows = 0 => ~f.overlapping)
        /\ (f.rows > MaxShortRows => f.overlapping)
        /\ (f.rows <= 1 => f.fund_days = 0)}

\* lines 188-196: rows of each frame inside the common date range
FundFilteredLen(f) == IF f.overlapping THEN f.rows ELSE 0
BenchFilteredLen(f) == IF f.overlapping THEN MIN_OVERLAP ELSE 0

\* line 199
ThinOverlap(f) ==
    FundFilteredLen(f) < MIN_OVERLAP \/ BenchFilteredLen(f) < MIN_OVERLAP

\* line 214: np.random.seed(42)
SeededRng == [seed |-> "42", pos |-> 0]

\* line 226: np.random.normal(...) returns the value the generator's state
\* determines and advances the state
Draw(g) == g
Advance(g) == [g EXCEPT !.pos = @ + 1]

\* line 220, 224: the first synthetic benchmark value, 18000, is not drawn
StartValue == [seed |-> "start", pos |-> 0]

EmptyMetrics == [outcome |-> "empty", nav_bench |-> <<>>]

ReadyCall(f) ==
    [passed |-> f, fund_df |-> f, local_df |-> f, at |-> "ready", i |-> 0,
     benchmark_values |-> <<>>, result |-> [outcome |-> "pending",
                                            nav_bench |-> <<>>]]

ScoreIdle ==
    /\ metrics = EmptyBag
    /\ recommendation = Pending

InitConc ==
    /\ rng = UnseededRng
    /\ calls \in [Callers -> {ReadyCall(f) : f \in FundFrames}]
    /\ ScoreIdle
    /\ BatchIdle
    /\ BenchIdle
    /\ ServicesIdle

Returns(c, res) == [c EXCEPT !.at = "returned", !.result = res]

\* lines 167-220: from the call up to the start of the synthesis loop.  The
\* frame is copied (171) before its dates are made timezone-naive (175).
EnterCall(t) ==
    LET c == calls[t]
        f == c.fund_df
        copy == [f EXCEPT !.tz = "naive"]
    IN  /\ c.at = "ready"
        /\ IF f.rows = 0
           THEN /\ calls' = [calls EXCEPT ![t] = Returns(c, EmptyMetrics)]
                /\ rng' = rng
           ELSE IF ThinOverlap(f)
           THEN IF f.rows >= 2 /\ f.fund_days > 0
                THEN /\ rng' = SeededRng
                     /\ calls' = [calls EXCEPT ![t] =
                                    [c EXCEPT !.local_df = copy, !.at = "loop",
                                              !.i = 0,
                                              !.benchmark_values = <<>>]]
                ELSE /\ calls' = [calls EXCEPT ![t] =
                           Returns([c EXCEPT !.local_df = copy], EmptyMetrics)]
                     /\ rng' = rng
           ELSE /\ calls' = [calls EXCEPT ![t] =
                       Returns([c EXCEPT !.local_df = copy],
                               [outcome |-> "aligned", nav_bench |-> <<>>])]
                /\ rng' = rng
        /\ UNCHANGED <<scoreVars, batchVars, benchVars, serviceVars>>

\* lines 222-228: one iteration of the loop over the fund's rows
LoopStep(t) ==
    LET c == calls[t]
    IN  /\ c.at = "loop"
        /\ c.i < c.local_df.rows
        /\ IF c.i = 0
           THEN /\ calls' = [calls EXCEPT ![t] =
                       [c EXCEPT !.benchmark_values = Append(@, StartValue),
                                 !.i = @ + 1]]
                /\ rng' = rng
           ELSE /\ calls' = [calls EXCEPT ![t] =
                       [c EXCEPT !.benchmark_values = Append(@, Draw(rng)),
                                 !.i = @ + 1]]
                /\ rng' = Advance(rng)
        /\ UNCHANGED <<scoreVars, batchVars, benchVars, serviceVars>>

\* lines 231-321: the merged frame has one row per fund row; fewer than two
\* returns give {} (251-252), otherwise the metrics are computed from the fund's
\* NAVs and the synthesized benchmark values.
FinishCall(t) ==
    LET c == calls[t]
    IN  /\ c.at = "loop"
        /\ c.i = c.local_df.rows
        /\ calls' = [calls EXCEPT ![t] =
               Returns(c, IF c.local_df.rows - 1 < 2
                          THEN EmptyMetrics
                          ELSE [outcome |-> "approximate",
                                nav_bench |-> c.benchmark_values])]
        /\ UNCHANGED <<rng, scoreVars, batchVars, benchVars, serviceVars>>

NextConc ==
    \E t \in Callers : EnterCall(t) \/ LoopStep(t) \/ FinishCall(t)

SpecConc == InitConc /\ [][NextConc]_vars

\* What one call alone returns for frame f: the synthesized values are the
\* start value followed by the first rows-1 draws after seed(42).
SequentialResult(f) ==
    IF f.rows = 0 THEN EmptyMetrics
    ELSE IF ~ThinOverlap(f) THEN [outcome |-> "aligned", nav_bench |-> <<>>]
    ELSE IF f.rows < 3 \/ f.fund_days = 0 THEN EmptyMetrics
    ELSE [outcome |-> "approximate",
          nav_bench |-> [k \in 1..f.rows |->
                            IF k = 1 THEN StartValue
                            ELSE [seed |-> "42", pos |-> k - 2]]]

\* C8: per-fund analyses are independent -- with several
\* calculate_benchmark_metrics calls in flight, under any interleaving of their
\* steps, every call returns exactly what it returns when run alone.
C8_ConcurrentEqualsSequential ==
    \A t \in DOMAIN calls :
        calls[t].at = "returned" =>
            calls[t].result = SequentialResult(calls[t].passed)

\* C9: a metric computation changes nothing but its return value -- the frames
\* passed in are as the caller passed them and the process-wide generator state
\* is never written, on every path.
C9_CallsWriteOnlyTheirResult ==
    /\ rng = UnseededRng
    /\ \A t \in DOMAIN calls : calls[t].fund_df = calls[t].passed

-----------------------------------------------------------------------------
(* calculate_benchmark_metrics on concrete series: benchmark_service.py     *)
(* 165-321.  A series is a sequence of [date, nav] rows in date order;      *)
(* dates are day numbers and NAVs exact rationals.                          *)

TRADING_DAYS == 252                    \* main.py 14 (app.config.settings)

MaxMoves == 2          \* NAV changes per series; the other steps are flat
MovingSteps == 3       \* the changes fall in the last MovingSteps steps
MaxLongRows == 11      \* longest series
StartExp == 2          \* every series starts at NAV 2^StartExp

RECURSIVE Pow2(_)
Pow2(e) == IF e = 0 THEN 1 ELSE 2 * Pow2(e - 1)

RECURSIVE SumTo(_, _)
SumTo(f, n) == IF n = 0 THEN 0 ELSE f[n] + SumTo(f, n - 1)

\* Step j multiplies the NAV by 2^steps[j]
StepSeqs(len) ==
    IF len <= 1 THEN {<<>>}
    ELSE LET steps == len - 1
             flat == IF steps > MovingSteps THEN steps - MovingSteps ELSE 0
             tails == {tl \in [(flat + 1)..steps -> {-1, 0, 1}] :
                          Cardinality({j \in DOMAIN tl : tl[j] # 0})
                              <= MaxMoves}
         IN  {[j \in 1..steps |-> IF j <= flat THEN 0 ELSE tl[j]] :
                 tl \in tails}

\* 2^e as a NAV, e of either sign
NavPow2(e) == IF e >= 0 THEN Num(Pow2(e)) ELSE Rat(1, Pow2(-e))

\* Rows every stride days from first_date
SeriesOf(len, first_date, stride, st) ==
    [j \in 1..len |->
        [date |-> first_date + stride * (j - 1),
         nav |-> NavPow2(StartExp + SumTo(st, j - 1))]]

SeriesLengths == {0, 1, 2} \cup (MIN_OVERLAP..MaxLongRows)

Strides == {1, 2}

NavSeries(first_dates) ==
    UNION {{SeriesOf(len, fd, stride, st) :
              st \in StepSeqs(len), fd \in first_dates, stride \in Strides}
           : len \in SeriesLengths}

FundSeries == NavSeries({1, 2})
BenchmarkSeries == NavSeries({1})

RECURSIVE SumSeq(_)
SumSeq(xs) == IF xs = <<>> THEN Num(0) ELSE RAdd(xs[1], SumSeq(Tail(xs)))

\* Series.mean()
Mean(xs) == RDiv(SumSeq(xs), Num(Len(xs)))

\* sum of (x - mean x)(y - mean y), as  sum(x y) - sum(x) sum(y) / N
CoMoment(xs, ys) ==
    RSub(SumSeq([j \in 1..Len(xs) |-> RMul(xs[j], ys[j])]),
         RDiv(RMul(SumSeq(xs), SumSeq(ys)), Num(Len(xs))))

\* np.cov(x, y)[0, 1]: normalised by N - 1 (the default, bias=False)
Cov(xs, ys) == RDiv(CoMoment(xs, ys), Num(Len(xs) - 1))

\* np.var(x): normalised by N (the default, ddof=0)
Var(xs) == RDiv(CoMoment(xs, xs), Num(Len(xs)))

\* Series.std() squared: normalised by N - 1 (pandas' default, ddof=1)
SampleVar(xs) == RDiv(CoMoment(xs, xs), Num(Len(xs) - 1))

\* Series.pct_change().dropna() of a column of positive values
pct_change(vals) ==
    [j \in 1..(Len(vals) - 1) |-> RSub(RDiv(vals[j + 1], vals[j]), Num(1))]

\* Series.iloc[-n:]
LastN(xs, n) == SubSeq(xs, Len(xs) - n + 1, Len(xs))

\* lines 188-196
FilterWindow(frame, common_start, common_end) ==
    SelectSeq(frame, LAMBDA row : row.date >= common_start
                              /\ row.date <= common_end)

\* Variant of Merge that keeps every fund row (how='left'), pairing a fund
\* date the benchmark lacks with the fund's own NAV
MergeKeepingFundRows(fund_rows, bench_rows) ==
    [j \in 1..Len(fund_rows) |->
        LET row == fund_rows[j]
            hit == {i \in 1..Len(bench_rows) : bench_rows[i].date = row.date}
        IN  [date |-> row.date, nav_fund |-> row.nav,
             nav_bench |-> IF hit = {} THEN row.nav
                           ELSE bench_rows[CHOOSE i \in hit : TRUE].nav]]

\* line 242: pd.merge(..., on='date', how='inner') of frames with unique dates
Merge(fund_rows, bench_rows) ==
    LET RECURSIVE Join(_)
        Join(rows) ==
            IF rows = <<>> THEN <<>>
            ELSE LET row == Head(rows)
                     hit == {j \in 1..Len(bench_rows) :
                                bench_rows[j].date = row.date}
                 IN  IF hit = {} THEN Join(Tail(rows))
                     ELSE <<[date |-> row.date, nav_fund |-> row.nav,
                             nav_bench |-> bench_rows[CHOOSE j \in hit : TRUE].nav]>>
                          \o Join(Tail(rows))
    IN  Join(fund_rows)

\* A positive value known through its square: sign * sqrt(of)
Root(sign, of) == [k |-> "root", sign |-> sign, of |-> of]

\* A value that depends on the np.random.normal draws of lines 222-228
Drawn == [k |-> "drawn"]

Sign(x) == IF x.n > 0 THEN 1 ELSE IF x.n < 0 THEN -1 ELSE 0

NoMetrics ==
    [beta |-> Absent, alpha_pct |-> Absent, tracking_error_pct |-> Absent,
     information_ratio |-> Absent, correlation |-> Absent]

\* lines 265-269
Beta(fund_ret, bench_ret) == RDiv(Cov(fund_ret, bench_ret), Var(bench_ret))

\* lines 258-277: beta and alpha_pct, only when the benchmark variance is > 0
AlphaBeta(fund_ret, bench_ret) ==
    IF NumGt(Var(bench_ret), Num(0))
    THEN LET beta == Beta(fund_ret, bench_ret)
             fund_mean_return == RMul(Mean(fund_ret), Num(TRADING_DAYS))
             bench_mean_return == RMul(Mean(bench_ret), Num(TRADING_DAYS))
             alpha == RSub(fund_mean_return, RMul(beta, bench_mean_return))
         IN  [beta |-> Round(beta, 3),
              alpha_pct |-> Round(RMul(alpha, Num(100)), 2)]
    ELSE [beta |-> Absent, alpha_pct |-> Absent]

\* Variant of TrackingErrorPct that reports only a positive tracking error
TrackingErrorPctPositiveOnly(excess) ==
    LET v == SampleVar(excess)
    IN  IF v.n = 0 THEN Absent
        ELSE [k |-> "root", sign |-> 1, of |-> RMul(v, Num(TRADING_DAYS))]

\* lines 280-283: excess_returns.std() * sqrt(TRADING_DAYS) * 100, kept as the
\* square root of an exact rational unless it is exactly 0
TrackingErrorPct(excess) ==
    LET v == SampleVar(excess)
    IN  IF v.n = 0 THEN Num(0)
        ELSE Root(1, RMul(v, Num(TRADING_DAYS)))

\* lines 286-289: present only when tracking_error_pct > 0; its sign is the
\* sign of the mean excess return
InformationRatio(excess, te) ==
    IF te.k = "root"
    THEN [k |-> "over_root", num |-> RMul(Mean(excess), Num(TRADING_DAYS)),
          of |-> te.of]
    ELSE Absent

\* lines 292-294: Pearson correlation; NaN when either variance is 0
Correlation(fund_ret, bench_ret) ==
    LET c == Cov(fund_ret, bench_ret)
        vv == RMul(SampleVar(fund_ret), SampleVar(bench_ret))
    IN  IF vv.n = 0 THEN NaN
        ELSE IF NumEq(RMul(c, c), vv) THEN Num(Sign(c))
        ELSE Root(Sign(c), RDiv(RMul(c, c), vv))

\* Variant of MetricsOfMerged that reports the sibling metrics only when the
\* regression succeeded
MetricsOfMergedRegressionOnly(merged) ==
    IF Len(merged) < 2 THEN NoMetrics
    ELSE LET fund_returns == pct_change([j \in 1..Len(merged) |->
                                            merged[j].nav_fund])
             bench_returns == pct_change([j \in 1..Len(merged) |->
                                             merged[j].nav_bench])
         IN  IF Len(fund_returns) < 2 THEN NoMetrics
             ELSE LET ab == AlphaBeta(fund_returns, bench_returns)
                      excess == [j \in 1..Len(fund_returns) |->
                                    RSub(fund_returns[j], bench_returns[j])]
                      te == TrackingErrorPct(excess)
                  IN  IF ab.beta = Absent THEN NoMetrics
                      ELSE [beta |-> ab.beta, alpha_pct |-> ab.alpha_pct,
                            tracking_error_pct |-> te,
                            information_ratio |-> InformationRatio(excess, te),
                            correlation |-> Correlation(fund_returns,
                                                        bench_returns)]

\* lines 247-321 on the aligned table.  No outperformance key: the table has
\* fewer than 365 rows.
MetricsOfMerged(merged) ==
    IF Len(merged) < 2 THEN NoMetrics
    ELSE LET fund_returns == pct_change([j \in 1..Len(merged) |->
                                            merged[j].nav_fund])
             bench_returns == pct_change([j \in 1..Len(merged) |->
                                             merged[j].nav_bench])
         IN  IF Len(fund_returns) < 2 THEN NoMetrics
             ELSE LET min_len == Min(Len(fund_returns), Len(bench_returns))
                      ab == AlphaBeta(LastN(fund_returns, min_len),
                                      LastN(bench_returns, min_len))
                      excess == [j \in 1..Len(fund_returns) |->
                                    RSub(fund_returns[j], bench_returns[j])]
                      te == TrackingErrorPct(excess)
                  IN  [beta |-> ab.beta, alpha_pct |-> ab.alpha_pct,
                       tracking_error_pct |-> te,
                       information_ratio |-> InformationRatio(excess, te),
                       correlation |-> Correlation(fund_returns,
                                                   bench_returns)]

\* lines 205-239: the table of the approximate path pairs every fund row with
\* a synthesized value, so every metric depends on the draws
MetricsOfSynthesized(fund) ==
    IF Len(fund) >= 2 /\ fund[Len(fund)].date - fund[1].date > 0
                      /\ Len(fund) - 1 >= 2
    THEN [beta |-> Drawn, alpha_pct |-> Drawn, tracking_error_pct |-> Drawn,
          information_ratio |-> Drawn, correlation |-> Drawn]
    ELSE NoMetrics

\* lines 214-228: benchmark_values of the approximate path for a table of n
\* rows -- the start value 18000, then one value per draw of the generator
\* seeded with 42 at line 214 and the constants 0.12 / 252, 0.18 / sqrt(252)
benchmark_values(n) ==
    [k \in 1..n |-> IF k = 1 THEN StartValue
                    ELSE [seed |-> "42", pos |-> k - 2]]

\* What a call leaves behind: the branch taken, whether the aligned table
\* `merged` was built at all (lines 231-235 or 242), its date column, its
\* nav_bench column when synthesized, and the returned bag
Returned(path, built, dates, values, bag) ==
    [outcome |-> "returned", path |-> path, built |-> built,
     merged_dates |-> dates, merged_rows |-> Len(dates),
     synthesized |-> values, bag |-> bag]

MaxDate(a, b) == IF a > b THEN a ELSE b
MinDate(a, b) == IF a < b THEN a ELSE b

\* The whole call, lines 165-321
calculate_benchmark_metrics(fund, bench) ==
    IF fund = <<>> \/ bench = <<>>
    THEN Returned("none", FALSE, <<>>, <<>>, NoMetrics)
    ELSE LET common_start == MaxDate(fund[1].date, bench[1].date)
             common_end == MinDate(fund[Len(fund)].date, bench[Len(bench)].date)
             fund_filtered == FilterWindow(fund, common_start, common_end)
             bench_filtered == FilterWindow(bench, common_start, common_end)
         IN  IF Len(fund_filtered) < MIN_OVERLAP
                \/ Len(bench_filtered) < MIN_OVERLAP
             THEN IF Len(fund) >= 2
                     /\ fund[Len(fund)].date - fund[1].date > 0
                  THEN Returned("approximate", TRUE,
                                [j \in 1..Len(fund) |-> fund[j].date],
                                benchmark_values(Len(fund)),
                                MetricsOfSynthesized(fund))
                  ELSE Returned("approximate", FALSE, <<>>, <<>>, NoMetrics)
             ELSE LET merged == Merge(fund_filtered, bench_filtered)
                  IN  Returned("exact", TRUE,
                               [j \in 1..Len(merged) |-> merged[j].date],
                               <<>>, MetricsOfMerged(merged))

\* The generator after the call: seeded and advanced once per row after the
\* first on the approximate path with a positive date span, untouched otherwise
RngAfter(g, res) ==
    IF res.path = "approximate" /\ res.merged_rows >= 2
    THEN [seed |-> "42", pos |-> res.merged_rows - 1]
    ELSE g

InitBench ==
    /\ fund_df \in FundSeries
    /\ benchmark_df \in BenchmarkSeries
    /\ benchmark_metrics = [outcome |-> "idle"]
    /\ rng = UnseededRng
    /\ calls = <<>>
    /\ ScoreIdle
    /\ BatchIdle
    /\ ServicesIdle

CalculateBenchmarkMetrics ==
    /\ benchmark_metrics.outcome = "idle"
    /\ pc = "idle"
    /\ benchmark_metrics' = calculate_benchmark_metrics(fund_df, benchmark_df)
    /\ rng' = RngAfter(rng, benchmark_metrics')
    /\ UNCHANGED <<fund_df, benchmark_df, calls, scoreVars, batchVars,
                   serviceVars>>

NextBench == CalculateBenchmarkMetrics

SpecBench == InitBench /\ [][NextBench]_vars

\* The input of the scenario: the fund series is the benchmark series, with at
\* least MIN_OVERLAP points and returns that are not all equal
IdenticalSeries ==
    /\ fund_df = benchmark_df
    /\ Len(fund_df) >= MIN_OVERLAP
    /\ \E j \in 2..(Len(fund_df) - 1) :
           RDiv(fund_df[j + 1].nav, fund_df[j].nav)
               # RDiv(fund_df[j].nav, fund_df[j - 1].nav)

\* C10: when the fund NAV series is identical to the benchmark NAV series (at
\* least 10 points, non-constant returns), calculate_benchmark_metrics reports
\* beta = 1.0, alpha_pct = 0.0 and tracking_error_pct = 0.0, whatever the
\* length of the series.
C10_IdenticalSeriesBetaOne ==
    (benchmark_metrics.outcome = "returned" /\ IdenticalSeries) =>
        /\ benchmark_metrics.bag.beta = Num(1)
        /\ benchmark_metrics.bag.alpha_pct = Num(0)
        /\ benchmark_metrics.bag.tracking_error_pct = Num(0)

\* The aligned table of the exact path for the current arguments (<<>> when
\* the call does not take that path)
AlignedTable ==
    IF fund_df = <<>> \/ benchmark_df = <<>> THEN <<>>
    ELSE LET common_start == MaxDate(fund_df[1].date, benchmark_df[1].date)
             common_end == MinDate(fund_df[Len(fund_df)].date,
                                   benchmark_df[Len(benchmark_df)].date)
             ff == FilterWindow(fund_df, common_start, common_end)
             bf == FilterWindow(benchmark_df, common_start, common_end)
         IN  IF Len(ff) < MIN_OVERLAP \/ Len(bf) < MIN_OVERLAP THEN <<>>
             ELSE Merge(ff, bf)

\* The regression ran on at least two benchmark returns, all of them equal
ZeroVarianceBenchmark ==
    /\ Len(AlignedTable) >= 3
    /\ \A j \in 2..(Len(AlignedTable) - 1) :
           RDiv(AlignedTable[j + 1].nav_bench, AlignedTable[j].nav_bench)
               = RDiv(AlignedTable[2].nav_bench, AlignedTable[1].nav_bench)

\* C11: whenever the benchmark return sequence used for the regression has
\* zero variance, the returned bag has neither beta nor alpha_pct, the call
\* returns (no fault), and tracking_error_pct is still reported.
C11_ZeroVarianceOmitsBetaAlpha ==
    (benchmark_metrics.outcome # "idle" /\ ZeroVarianceBenchmark) =>
        /\ benchmark_metrics.outcome = "returned"
        /\ benchmark_metrics.bag.beta = Absent
        /\ benchmark_metrics.bag.alpha_pct = Absent
        /\ benchmark_metrics.bag.tracking_error_pct # Absent

\* C11 witness: a call returned for a constant benchmark and a moving fund,
\* with a positive tracking error and no beta
C11_Witness ==
    /\ benchmark_metrics.outcome = "returned"
    /\ ZeroVarianceBenchmark
    /\ benchmark_metrics.bag.beta = Absent
    /\ benchmark_metrics.bag.tracking_error_pct.k = "root"

-----------------------------------------------------------------------------
(* metrics_service.py: the series statistics.  Values are numpy floats:    *)
(* a division by zero gives an infinity or NaN, never an exception.         *)

PosInf == [k |-> "inf", sign |-> 1]
NegInf == [k |-> "inf", sign |-> -1]
RaisedV == [k |-> "raised"]

\* numpy float division
FDiv(a, b) ==
    IF a.k = "nan" \/ b.k = "nan" THEN NaN
    ELSE IF b.n = 0
    THEN IF a.n > 0 THEN PosInf ELSE IF a.n < 0 THEN NegInf ELSE NaN
    ELSE RDiv(a, b)

\* x - 1.0
FSubOne(x) == IF IsNum(x) THEN RSub(x, Num(1)) ELSE x

\* pandas.Timedelta holds at most this many whole days (int64 nanoseconds);
\* Timedelta(days=n) beyond it raises OutOfBoundsTimedelta
TIMEDELTA_MAX_DAYS == 106751

TimedeltaRaises(n) == n > TIMEDELTA_MAX_DAYS \/ n < -TIMEDELTA_MAX_DAYS

\* int(x) of the rational n/d: truncation towards zero
Trunc(n, d) == IF n >= 0 THEN n \div d ELSE -((-n) \div d)

\* int(365.25 * years) for a whole number of years
WindowDays(years) == Trunc(1461 * years, 4)

\* base ** (1 / n_years) - 1 with n_years = days / 365.25 > 0.  The exponent
\* is never a whole number, so a negative base gives NaN and -inf gives +inf.
\* Kept symbolic unless the power is exact (0 ** x = 0, 1 ** x = 1).
Annualized(base, days) ==
    IF base.k = "nan" THEN NaN
    ELSE IF base.k = "inf" THEN PosInf
    ELSE IF base.n < 0 THEN NaN
    ELSE IF base.n = 0 THEN Num(-1)
    ELSE IF base.n = base.d THEN Num(0)
    ELSE [k |-> "cagr", base |-> base, days |-> days]

\* df[df["date"] >= start_cutoff]
Window(frame, start_cutoff) ==
    SelectSeq(frame, LAMBDA row : row.date >= start_cutoff)

\* df["nav"].pct_change().dropna(): the first entry and every NaN are dropped
Returns1(frame) ==
    LET all == [j \in 1..(Len(frame) - 1) |->
                   FSubOne(FDiv(frame[j + 1].nav, frame[j].nav))]
    IN  SelectSeq(all, LAMBDA x : x.k # "nan")

\* lines 7-9: ret.std() * sqrt(TRADING_DAYS).  The sample standard deviation
\* of one value is NaN (0/0), and so is that of values holding an infinity.
_annualize_vol(ret) ==
    IF Len(ret) < 2 \/ \E j \in 1..Len(ret) : ret[j].k = "inf" THEN NaN
    ELSE LET v == SampleVar(ret)
         IN  IF v.n = 0 THEN Num(0) ELSE Root(1, RMul(v, Num(TRADING_DAYS)))

\* lines 12-19
calculate_volatility(frame) ==
    IF Len(frame) < 2 THEN NoneV
    ELSE LET ret == Returns1(frame)
         IN  IF ret = <<>> THEN NoneV ELSE _annualize_vol(ret)

\* a < b on floats that are numbers or infinities
FLt(a, b) ==
    IF a.k = "inf" THEN a.sign = -1 /\ ~(b.k = "inf" /\ b.sign = -1)
    ELSE IF b.k = "inf" THEN b.sign = 1
    ELSE NumLt(a, b)

\* Series.max() / Series.min() of values without NaN
RECURSIVE SeqMax(_)
SeqMax(xs) ==
    IF Len(xs) = 1 THEN xs[1]
    ELSE LET m == SeqMax(Tail(xs)) IN IF FLt(xs[1], m) THEN m ELSE xs[1]

RECURSIVE SeqMin(_)
SeqMin(xs) ==
    IF Len(xs) = 1 THEN xs[1]
    ELSE LET m == SeqMin(Tail(xs)) IN IF FLt(m, xs[1]) THEN m ELSE xs[1]

\* Variant of calculate_max_drawdown reporting the magnitude of the loss
calculate_max_drawdown_abs(frame) ==
    IF frame = <<>> THEN NoneV
    ELSE LET cum_max == [j \in 1..Len(frame) |->
                            SeqMax([i \in 1..j |-> frame[i].nav])]
             drawdown == [j \in 1..Len(frame) |->
                             FSubOne(FDiv(frame[j].nav, cum_max[j]))]
             defined == SelectSeq(drawdown, LAMBDA x : x.k # "nan")
             low == SeqMin(defined)
         IN  IF defined = <<>> THEN NaN
             ELSE IF IsNum(low) THEN Rat(Abs(low.n), low.d) ELSE PosInf

\* lines 29-35: min over i of nav[i] / cummax(nav)[i] - 1.0 (min skips NaN)
calculate_max_drawdown(frame) ==
    IF frame = <<>> THEN NoneV
    ELSE LET cum_max == [j \in 1..Len(frame) |->
                            SeqMax([i \in 1..j |-> frame[i].nav])]
             drawdown == [j \in 1..Len(frame) |->
                             FSubOne(FDiv(frame[j].nav, cum_max[j]))]
             defined == SelectSeq(drawdown, LAMBDA x : x.k # "nan")
         IN  IF defined = <<>> THEN NaN ELSE SeqMin(defined)

\* lines 38-52
cagr_for_window(frame, years) ==
    IF frame = <<>> THEN NoneV
    ELSE IF TimedeltaRaises(WindowDays(years)) THEN RaisedV
    ELSE LET end_date == frame[Len(frame)].date
             window == Window(frame, end_date - WindowDays(years))
         IN  IF Len(window) < 2 THEN NoneV
             ELSE LET days == window[Len(window)].date - window[1].date
                  IN  IF days <= 0 THEN NoneV
                      ELSE Annualized(
                               FDiv(window[Len(window)].nav, window[1].nav),
                               days)

\* lines 55-66
absolute_return_for_window(frame, days) ==
    IF frame = <<>> \/ days <= 0 THEN NoneV
    ELSE IF TimedeltaRaises(days) THEN RaisedV
    ELSE LET end_date == frame[Len(frame)].date
             window == Window(frame, end_date - days)
         IN  IF Len(window) < 2 THEN NoneV
             ELSE FSubOne(FDiv(window[Len(window)].nav, window[1].nav))

\* lines 69-78
full_period_cagr(frame) ==
    IF Len(frame) < 2 THEN NoneV
    ELSE LET days == frame[Len(frame)].date - frame[1].date
         IN  IF days <= 0 THEN NoneV
             ELSE Annualized(FDiv(frame[Len(frame)].nav, frame[1].nav), days)

MaxMetricRows == 3
FirstDate == 20000

MetricNavs == {Num(-4), Num(0), Num(2), Num(4), Num(8)}
DateGaps == {1, 400}

\* Series of up to MaxMetricRows rows in ascending date order
MetricSeries ==
    UNION {{[j \in 1..len |->
                [date |-> FirstDate + SumTo(gaps, j - 1), nav |-> navs[j]]] :
              navs \in [1..len -> MetricNavs],
              gaps \in [1..(IF len = 0 THEN 0 ELSE len - 1) -> DateGaps]}
           : len \in 0..MaxMetricRows}

YearsArgs == {-1, 0, 1, 3, 300}
DaysArgs == {-1, 0, 90, 365, 200000}
CagrArgs == {NoneV, NaN, Rat(-1, 10), Rat(7, 100), Rat(17, 100)}
VolatilityArgs == {NoneV, NaN, Num(0), Rat(1, 10), Rat(1, 5)}

InitMetrics ==
    /\ df \in MetricSeries
    /\ metric_call = [fn |-> "none"]
    /\ nifty = [pc |-> "idle"]
    /\ advice = [pc |-> "idle"]
    /\ ComparatorIdle
    /\ ScoreIdle
    /\ BatchIdle
    /\ ConcIdle
    /\ fund_df = <<>>
    /\ benchmark_df = <<>>
    /\ benchmark_metrics = [outcome |-> "idle"]

Called(fn, args, result) == [fn |-> fn, args |-> args, result |-> result]

MetricFrame ==
    /\ metric_call.fn = "none"
    /\ pc = "idle"
    /\ UNCHANGED <<df, nifty, advice, comparatorVars, scoreVars, batchVars,
                   concVars, benchVars>>

CalculateVolatility ==
    /\ MetricFrame
    /\ metric_call' = Called("calculate_volatility", <<>>,
                             calculate_volatility(df))

CalculateSharpe ==
    /\ MetricFrame
    /\ \E cagr \in CagrArgs, volatility \in VolatilityArgs :
           metric_call' = Called("calculate_sharpe",
                                 [cagr |-> cagr, volatility |-> volatility],
                                 calculate_sharpe(cagr, volatility))

\* The call, and the max_drawdown_pct the pipeline reports from it
\* (fund_analysis_service.py 30, 76)
CalculateMaxDrawdown ==
    /\ MetricFrame
    /\ LET max_dd == calculate_max_drawdown(df)
       IN  metric_call' =
               [fn |-> "calculate_max_drawdown", args |-> <<>>,
                result |-> max_dd,
                max_drawdown_pct |-> IF max_dd.k = "inf" THEN max_dd
                                     ELSE r(max_dd)]

CagrForWindow ==
    /\ MetricFrame
    /\ \E years \in YearsArgs :
           metric_call' = Called("cagr_for_window", [years |-> years],
                                 cagr_for_window(df, years))

AbsoluteReturnForWindow ==
    /\ MetricFrame
    /\ \E days \in DaysArgs :
           metric_call' = Called("absolute_return_for_window",
                                 [days |-> days],
                                 absolute_return_for_window(df, days))

FullPeriodCagr ==
    /\ MetricFrame
    /\ metric_call' = Called("full_period_cagr", <<>>, full_period_cagr(df))

NextMetrics ==
    \/ CalculateVolatility
    \/ CalculateSharpe
    \/ CalculateMaxDrawdown
    \/ CagrForWindow
    \/ AbsoluteReturnForWindow
    \/ FullPeriodCagr

SpecMetrics == InitMetrics /\ [][NextMetrics]_vars

\* C12: calculate_sharpe returns 'no value' whenever the CAGR is 'no value',
\* the volatility is 'no value' or the volatility is 0; in every other case it
\* returns (cagr - risk-free rate) / volatility (NaN when an operand is NaN);
\* it never divides by zero.
C12_SharpeNoValueOrQuotient ==
    metric_call.fn = "calculate_sharpe" =>
        LET c == metric_call.args.cagr
            v == metric_call.args.volatility
            res == metric_call.result
        IN  /\ res.k \notin {"raised", "inf"}
            /\ IF c = NoneV \/ v = NoneV \/ v = Num(0) THEN res = NoneV
               ELSE IF IsNum(c) /\ IsNum(v)
               THEN /\ IsNum(res)
                    /\ res.n * (100 * c.d * v.n)
                         = res.d * ((100 * c.n - 7 * c.d) * v.d)
               ELSE res = NaN

\* C12 witness: a call with a defined CAGR and volatility 0 returned 'no value'
C12_Witness ==
    /\ metric_call.fn = "calculate_sharpe"
    /\ IsNum(metric_call.args.cagr)
    /\ metric_call.args.volatility = Num(0)
    /\ metric_call.result = NoneV

SeriesStatistics ==
    {"calculate_volatility", "full_period_cagr", "cagr_for_window",
     "absolute_return_for_window"}

\* C13: for every NAV series with fewer than 2 observations,
\* calculate_volatility, full_period_cagr, cagr_for_window (any N) and
\* absolute_return_for_window (any D) return 'no value' and none raises.
C13_ShortSeriesNoValue ==
    (metric_call.fn \in SeriesStatistics /\ Len(df) < 2) =>
        metric_call.result = NoneV

\* The rows of the span a call worked on: the window of the windowed
\* functions, the whole series for full_period_cagr
SpanOfCall ==
    IF metric_call.fn = "cagr_for_window"
    THEN Window(df, df[Len(df)].date - WindowDays(metric_call.args.years))
    ELSE IF metric_call.fn = "absolute_return_for_window"
    THEN Window(df, df[Len(df)].date - metric_call.args.days)
    ELSE df

\* C14: for any series of at least 2 points whose first NAV in the (windowed
\* or full) span is 0 or negative, full_period_cagr, cagr_for_window and
\* absolute_return_for_window return 'no value' -- they neither raise nor
\* return an infinite or undefined number.
C14_NonPositiveStartNoValue ==
    (/\ metric_call.fn \in {"full_period_cagr", "cagr_for_window",
                            "absolute_return_for_window"}
     /\ Len(df) >= 2
     /\ Len(SpanOfCall) >= 2
     /\ SpanOfCall[1].nav.n <= 0) =>
        metric_call.result = NoneV

PositiveSeries == \A j \in 1..Len(df) : df[j].nav.n > 0

\* nav[j] / nav[i] - 1
Change(i, j) == RSub(RDiv(df[j].nav, df[i].nav), Num(1))

\* C15: calculate_max_drawdown returns 'no value' for an empty series and
\* otherwise the minimum over i of nav[i]/max(nav[0..i]) - 1, which is <= 0:
\* exactly 0 for a non-decreasing series, exactly v1/v0 - 1 for a series that
\* only decreases from v0 to v1; the reported max_drawdown_pct keeps the sign.
C15_MaxDrawdownIsLargestFall ==
    (metric_call.fn = "calculate_max_drawdown" /\ PositiveSeries) =>
        LET res == metric_call.result
            n == Len(df)
        IN  IF n = 0 THEN res = NoneV /\ metric_call.max_drawdown_pct = NoneV
            ELSE /\ IsNum(res)
                 /\ res.n <= 0
                 /\ \E j \in 1..n : \E i \in 1..j : res = Change(i, j)
                 /\ \A j \in 1..n : \A i \in 1..j :
                        ~NumLt(Change(i, j), res)
                 /\ (\A j \in 1..(n - 1) : ~NumLt(df[j + 1].nav, df[j].nav))
                        => res = Num(0)
                 /\ (\A j \in 1..(n - 1) : NumLt(df[j + 1].nav, df[j].nav))
                        => res = Change(1, n)
                 /\ metric_call.max_drawdown_pct
                        = Rat(RoundHalfEven(res.n * 10000, res.d), 100)
                 /\ metric_call.max_drawdown_pct.n <= 0

\* C15 witness: a series that rises and then falls below an earlier peak
C15_Witness ==
    /\ metric_call.fn = "calculate_max_drawdown"
    /\ PositiveSeries
    /\ Len(df) = 3
    /\ NumLt(df[1].nav, df[2].nav)
    /\ NumLt(df[3].nav, df[1].nav)
    /\ metric_call.result = Change(2, 3)
    /\ metric_call.max_drawdown_pct = Num(-75)

\* Rows of the table the metrics are computed from: the merged table, or on
\* the approximate path one row per fund row when it is built at all
AlignedRows ==
    IF fund_df = <<>> \/ benchmark_df = <<>> THEN 0
    ELSE LET lo == MaxDate(fund_df[1].date, benchmark_df[1].date)
             hi == MinDate(fund_df[Len(fund_df)].date,
                           benchmark_df[Len(benchmark_df)].date)
             InWindow(frame) == Cardinality({j \in 1..Len(frame) :
                                   frame[j].date >= lo /\ frame[j].date <= hi})
         IN  IF InWindow(fund_df) >= MIN_OVERLAP
                /\ InWindow(benchmark_df) >= MIN_OVERLAP
             THEN Cardinality({j \in 1..Len(fund_df) :
                      \E i \in 1..Len(benchmark_df) :
                          benchmark_df[i].date = fund_df[j].date})
             ELSE IF Len(fund_df) >= 2 THEN Len(fund_df) ELSE 0

\* C16: calculate_benchmark_metrics returns an empty bag, without raising,
\* whenever either input series is empty, the aligned table has fewer than 2
\* rows or a return sequence has fewer than 2 observations; in every other
\* case the bag contains at least tracking_error_pct.
C16_EmptyBagOrTrackingError ==
    benchmark_metrics.outcome # "idle" =>
        /\ benchmark_metrics.outcome = "returned"
        /\ IF \/ fund_df = <<>>
              \/ benchmark_df = <<>>
              \/ AlignedRows < 2
              \/ AlignedRows - 1 < 2
           THEN benchmark_metrics.bag = NoMetrics
           ELSE benchmark_metrics.bag.tracking_error_pct # Absent

\* C16 witness: two long series on disjoint calendars -- both have at least
\* MIN_OVERLAP rows in the common window, no date matches, the bag is empty
C16_Witness ==
    /\ benchmark_metrics.outcome = "returned"
    /\ benchmark_metrics.path = "exact"
    /\ Len(fund_df) > MIN_OVERLAP
    /\ AlignedRows = 0
    /\ benchmark_metrics.bag = NoMetrics

-----------------------------------------------------------------------------
(* fetch_nifty50_data: benchmark_service.py 17-162.  The environment of a   *)
(* call is fixed in nifty.env: whether the market-data libraries imported,  *)
(* the weekday of today (0 = Monday), what Yahoo and NSE answer.            *)

YAHOO_MIN_RAW == 10                    \* benchmark_service.py 40
YAHOO_MIN_USABLE == 50                 \* benchmark_service.py 49
MaxDaysBack == 100

DaysBackArgs == {0, 1, 2, MaxDaysBack}

\* Yahoo raises, or returns raw rows of which usable have a closing price
YahooAnswers ==
    {[error |-> TRUE, raw |-> 0, usable |-> 0]}
    \cup {[error |-> FALSE, raw |-> a[1], usable |-> a[2]] :
             a \in {<<0, 0>>, <<10, 10>>, <<11, 11>>, <<60, 50>>, <<60, 51>>,
                    <<60, 60>>}}

\* lines 88-89 / 137-138: the days from today - days_back to today that are
\* not Saturday or Sunday
WeekdayCount(days_back, today) ==
    Cardinality({k \in 0..days_back :
                    (today + 7 * (days_back + 1) - k) % 7 < 5})

NiftyEnvs ==
    {e \in [NSE_AVAILABLE : BOOLEAN, days_back : DaysBackArgs, today : 0..6,
            yahoo : YahooAnswers, nse_error : BOOLEAN] :
        e.yahoo.raw <= e.days_back + 1}

InitNifty ==
    /\ nifty \in {[pc |-> "start", env |-> e, tried |-> <<>>,
                   source |-> "none", rows |-> 0] : e \in NiftyEnvs}
    /\ df = <<>>
    /\ metric_call = [fn |-> "none"]
    /\ advice = [pc |-> "idle"]
    /\ ComparatorIdle
    /\ ScoreIdle
    /\ BatchIdle
    /\ ConcIdle
    /\ fund_df = <<>>
    /\ benchmark_df = <<>>
    /\ benchmark_metrics = [outcome |-> "idle"]

NiftyFrame ==
    UNCHANGED <<df, metric_call, advice, comparatorVars, scoreVars, batchVars,
                concVars, benchVars>>

\* lines 23-24
CheckLibraries ==
    /\ nifty.pc = "start"
    /\ nifty' = [nifty EXCEPT !.pc = IF nifty.env.NSE_AVAILABLE THEN "yahoo"
                                     ELSE "synthetic"]
    /\ NiftyFrame

\* lines 27-59
TryYahoo ==
    /\ nifty.pc = "yahoo"
    /\ LET y == nifty.env.yahoo
           t == Append(nifty.tried, "yahoo")
       IN  IF ~y.error /\ y.raw > YAHOO_MIN_RAW /\ y.usable > YAHOO_MIN_USABLE
           THEN nifty' = [nifty EXCEPT !.pc = "returned", !.tried = t,
                                       !.source = "yahoo", !.rows = y.usable]
           ELSE nifty' = [nifty EXCEPT !.pc = "nse", !.tried = t]
    /\ NiftyFrame

\* lines 62-68 and 71-124: prices holds max(n, 2) values for n dates, and a
\* DataFrame of columns of different lengths raises ValueError
TryNse ==
    /\ nifty.pc = "nse"
    /\ LET n == WeekdayCount(nifty.env.days_back, nifty.env.today)
           t == Append(nifty.tried, "nse")
       IN  IF nifty.env.nse_error \/ n < 2
           THEN nifty' = [nifty EXCEPT !.pc = "synthetic", !.tried = t]
           ELSE nifty' = [nifty EXCEPT !.pc = "returned", !.tried = t,
                                       !.source = "nse", !.rows = n]
    /\ NiftyFrame

\* lines 127-162: prices holds max(n, 1) values for n dates
GenerateSynthetic ==
    /\ nifty.pc = "synthetic"
    /\ LET n == WeekdayCount(nifty.env.days_back, nifty.env.today)
           t == Append(nifty.tried, "synthetic")
       IN  IF n < 1
           THEN nifty' = [nifty EXCEPT !.pc = "raised", !.tried = t]
           ELSE nifty' = [nifty EXCEPT !.pc = "returned", !.tried = t,
                                       !.source = "synthetic", !.rows = n]
    /\ NiftyFrame

NextNifty == CheckLibraries \/ TryYahoo \/ TryNse \/ GenerateSynthetic

SpecNifty == InitNifty /\ [][NextNifty]_vars

\* C17: fetch_nifty50_data tries its sources in the order Yahoo, NSE,
\* synthetic; Yahoo data is returned only with more than 50 usable rows, the
\* synthetic series only after both earlier sources failed or when the
\* libraries are unavailable; for every combination of failures and every
\* days_back >= 0 the call returns a non-empty series and never raises.
C17_AlwaysEndsWithSeries ==
    /\ nifty.pc # "raised"
    /\ nifty.pc = "returned" =>
           /\ nifty.rows >= 1
           /\ nifty.source = "yahoo" =>
                  nifty.tried = <<"yahoo">> /\ nifty.env.yahoo.usable > 50
           /\ nifty.source = "nse" => nifty.tried = <<"yahoo", "nse">>
           /\ nifty.source = "synthetic" =>
                  \/ ~nifty.env.NSE_AVAILABLE /\ nifty.tried = <<"synthetic">>
                  \/ nifty.tried = <<"yahoo", "nse", "synthetic">>

-----------------------------------------------------------------------------
(* smart_advisor.py: get_smart_recommendations (one call)                   *)

\* Python truthiness of an optional float: None and 0.0 are falsy, NaN is not
Truthy(v) == ~(v = NoneV \/ v = Absent \/ NumEq(v, Num(0)))

\* fund.get(key, default)
GetOr(v, default) == IF v = Absent THEN default ELSE v

\* x or 0
OrZero(v) == IF Truthy(v) THEN v ELSE Num(0)

\* a + b on floats
FAdd(a, b) == IF a.k = "nan" \/ b.k = "nan" THEN NaN ELSE RAdd(a, b)

RECURSIVE FSum(_)
FSum(xs) == IF xs = <<>> THEN Num(0) ELSE FAdd(xs[1], FSum(Tail(xs)))

\* abs(x)
FAbs(x) == IF IsNum(x) THEN Rat(Abs(x.n), x.d) ELSE x

Max(a, b) == IF a > b THEN a ELSE b

\* smart_advisor.py 85-122
_calculate_risk_score(sharpe, info_ratio, max_dd, volatility) ==
    LET s1 == IF NumGt(sharpe, Rat(3, 2)) THEN -2
              ELSE IF NumGt(sharpe, Num(1)) THEN -1
              ELSE IF NumLt(sharpe, Rat(1, 2)) THEN 1 ELSE 0
        s2 == IF NumGt(info_ratio, Rat(1, 2)) THEN -1
              ELSE IF NumLt(info_ratio, Num(0)) THEN 2 ELSE 0
        s3 == IF NumGt(max_dd, Num(30)) THEN 3
              ELSE IF NumGt(max_dd, Num(20)) THEN 2
              ELSE IF NumGt(max_dd, Num(15)) THEN 1
              ELSE IF NumLt(max_dd, Num(10)) THEN -1 ELSE 0
        s4 == IF ~Truthy(volatility) THEN 0
              ELSE IF NumGt(volatility, Num(25)) THEN 2
              ELSE IF NumGt(volatility, Num(20)) THEN 1
              ELSE IF NumLt(volatility, Num(15)) THEN -1 ELSE 0
    IN  Max(1, Min(10, 5 + s1 + s2 + s3 + s4))

\* smart_advisor.py 39-43
RiskScoreOf(fund) ==
    _calculate_risk_score(OrZero(GetOr(fund.sharpe_ratio, Num(0))),
                          OrZero(GetOr(fund.information_ratio, Num(0))),
                          FAbs(OrZero(GetOr(fund.max_drawdown_pct, Num(0)))),
                          GetOr(fund.volatility_pct, Num(999)))

\* smart_advisor.py 29-31: the alpha filter lets the fund through
PassesAlpha(fund, min_alpha) ==
    ~NumLt(GetOr(fund.alpha_pct, Num(0)), min_alpha)

\* smart_advisor.py 34-36: the volatility filter lets the fund through
PassesVolatility(fund, max_volatility) ==
    LET volatility == GetOr(fund.volatility_pct, Num(999))
    IN  ~(Truthy(max_volatility) /\ Truthy(volatility)
          /\ NumGt(volatility, max_volatility))

\* smart_advisor.py 45-48
PassesRisk(risk_score, risk_tolerance) ==
    ~(\/ risk_tolerance = "conservative" /\ risk_score > 6
      \/ risk_tolerance = "moderate" /\ risk_score > 8)

\* smart_advisor.py 27-52: the loop over funds
RECURSIVE FilterFunds(_, _, _, _)
FilterFunds(funds, risk_tolerance, min_alpha, max_volatility) ==
    IF funds = <<>> THEN <<>>
    ELSE LET fund == funds[1]
             rest == FilterFunds(Tail(funds), risk_tolerance, min_alpha,
                                 max_volatility)
             risk_score == RiskScoreOf(fund)
         IN  IF /\ PassesAlpha(fund, min_alpha)
                /\ PassesVolatility(fund, max_volatility)
                /\ PassesRisk(risk_score, risk_tolerance)
             THEN <<[fund EXCEPT !.risk_score = Num(risk_score)]>> \o rest
             ELSE rest

\* smart_advisor.py 55-62
AdvisorSortKey(x) ==
    <<GetOr(x.alpha_pct, Num(-999)),
      GetOr(x.information_ratio, Num(-999)),
      RSub(Num(0), GetOr(x.risk_score, Num(999)))>>

Values(keyed) == [i \in 1..Len(keyed) |-> keyed[i][2]]

SortFiltered(list) ==
    Values(Reverse(ListSortAscending(Reverse(
        [i \in 1..Len(list) |-> <<AdvisorSortKey(list[i]), list[i]>>]))))

\* funds[:n]
FirstN(s, n) == SubSeq(s, 1, Min(n, Len(s)))

\* smart_advisor.py 199-217
_generate_analysis_summary(funds) ==
    IF funds = <<>>
    THEN [message |-> "No funds meet your criteria",
          total_funds_analyzed |-> Absent,
          funds_with_positive_alpha |-> Absent,
          average_alpha_pct |-> Absent,
          average_volatility_pct |-> Absent,
          average_sharpe_ratio |-> Absent]
    ELSE LET top == FirstN(funds, 3)
             n == Num(Min(Len(funds), 3))
             avg_alpha ==
                 FDiv(FSum([i \in 1..Len(top) |->
                               GetOr(top[i].alpha_pct, Num(0))]), n)
             avg_volatility ==
                 FDiv(FSum([i \in 1..Len(top) |->
                               OrZero(GetOr(top[i].volatility_pct, Num(0)))]), n)
             avg_sharpe ==
                 FDiv(FSum([i \in 1..Len(top) |->
                               OrZero(top[i].sharpe_ratio)]), n)
             positive_alpha_funds ==
                 Cardinality({i \in 1..Len(funds) :
                     NumGt(GetOr(funds[i].alpha_pct, Num(0)), Num(0))})
         IN  [message |-> "",
              total_funds_analyzed |-> Num(Len(funds)),
              funds_with_positive_alpha |-> Num(positive_alpha_funds),
              average_alpha_pct |-> Round(avg_alpha, 2),
              average_volatility_pct |-> Round(avg_volatility, 2),
              average_sharpe_ratio |-> Round(avg_sharpe, 2)]

\* smart_advisor.py 125-196: which of the texts is chosen
_generate_investment_recommendations(funds, risk_tolerance, investment_horizon) ==
    IF funds = <<>>
    THEN [primary_recommendation |-> "relax filters", horizon_note |-> ""]
    ELSE [primary_recommendation |->
              IF risk_tolerance = "conservative" THEN "primary choice"
              ELSE IF risk_tolerance = "moderate"
              THEN IF Len(funds) >= 2 THEN "split 60/40" ELSE "invest primarily"
              ELSE "maximize allocation",
          horizon_note |->
              IF investment_horizon = "short_term" THEN "warning"
              ELSE IF investment_horizon = "medium_term" THEN "suitable"
              ELSE "excellent"]

\* str.lower() on the words of the allocation texts
Lower(word) ==
    IF word = "Limited" THEN "limited"
    ELSE IF word = "Balanced" THEN "balanced"
    ELSE IF word = "Growth" THEN "growth"
    ELSE word

\* smart_advisor.py 235, 243, 251: the 'recommendation' texts, word by word
AllocationText(risk_tolerance) ==
    IF risk_tolerance = "conservative"
    THEN <<"Limited", "small", "cap", "exposure", "with", "focus", "on",
           "stability">>
    ELSE IF risk_tolerance = "moderate"
    THEN <<"Balanced", "approach", "with", "moderate", "small", "cap",
           "exposure">>
    ELSE <<"Growth", "focused", "with", "significant", "small", "cap",
           "allocation">>

\* smart_advisor.py 220-259: the allocation table and the funds it names;
\* without funds the dict has no 'recommendation' key
_suggest_portfolio_allocation(funds, risk_tolerance) ==
    IF funds = <<>>
    THEN [allocation |-> "No suitable funds found", recommendation |-> <<>>,
          named |-> 0]
    ELSE [allocation |->
              IF risk_tolerance \in {"conservative", "moderate"}
              THEN risk_tolerance ELSE "aggressive",
          recommendation |-> AllocationText(risk_tolerance),
          named |-> Min(Len(funds), 2)]

\* smart_advisor.py 272-289: the two conditional warnings
_generate_risk_warnings(funds) ==
    IF funds = <<>>
    THEN [high_volatility |-> FALSE, underperforming |-> 0]
    ELSE LET avg_volatility ==
                 FDiv(FSum([i \in 1..Len(funds) |->
                               OrZero(GetOr(funds[i].volatility_pct, Num(0)))]),
                      Num(Len(funds)))
         IN  [high_volatility |-> NumGt(avg_volatility, Num(25)),
              underperforming |->
                  Cardinality({i \in 1..Len(funds) :
                      NumLt(GetOr(funds[i].alpha_pct, Num(0)), Num(0))})]

\* smart_advisor.py 5-82
get_smart_recommendations(funds, risk_tolerance, investment_horizon, min_alpha, max_volatility) ==
    LET filtered_funds ==
            SortFiltered(FilterFunds(funds, risk_tolerance, min_alpha,
                                     max_volatility))
    IN  [recommended_funds |-> FirstN(filtered_funds, 3),
         analysis_summary |-> _generate_analysis_summary(filtered_funds),
         investment_strategy |->
             _generate_investment_recommendations(filtered_funds,
                 risk_tolerance, investment_horizon),
         portfolio_allocation |->
             _suggest_portfolio_allocation(FirstN(filtered_funds, 3),
                                           risk_tolerance),
         risk_warnings |-> _generate_risk_warnings(FirstN(filtered_funds, 3))]

(***************************************************************************)
(* What analyze_funds_with_benchmark can hand to the advisor: fund records *)
(* in percent units, as fund_analysis_service.py 57-84 builds them.        *)
(*   one row:      volatility and Sharpe None, no benchmark metrics        *)
(*   two rows:     volatility and Sharpe NaN, no benchmark metrics         *)
(*   no overlap:   three or more rows, no date shared with the benchmark   *)
(*   constant NAV: volatility 0, so Sharpe None; alpha 0                   *)
(***************************************************************************)
Fund(alpha, ir, vol, sharpe, dd) ==
    [alpha_pct |-> alpha, information_ratio |-> ir, volatility_pct |-> vol,
     sharpe_ratio |-> sharpe, max_drawdown_pct |-> dd, risk_score |-> Absent]

FundProfiles ==
    {Fund(Absent, Absent, NoneV, NoneV, Num(0)),
     Fund(Absent, Absent, NaN, NaN, Num(-5)),
     Fund(Absent, Absent, Num(12), Rat(6, 5), Num(-12)),
     Fund(Num(0), Num(-1), Num(0), NoneV, Num(0)),
     Fund(Num(5), Rat(3, 5), Num(12), Rat(8, 5), Num(-8)),
     Fund(Rat(5, 2), Rat(3, 10), Num(22), Rat(4, 5), Num(-18)),
     Fund(Num(-2), Rat(-2, 5), Num(30), Rat(1, 5), Num(-35))}

MaxAdvisorFunds == 4

\* fund_analysis_service.py 89-96: the list arrives sorted, best first
PipelineOrdered(funds) ==
    \A i \in 1..(Len(funds) - 1) :
        ~TupleLt(SortKey("benchmark", funds[i]),
                 SortKey("benchmark", funds[i + 1]))

AnalyzedFunds ==
    {funds \in UNION {[1..n -> FundProfiles] : n \in 0..MaxAdvisorFunds} :
        PipelineOrdered(funds)}

\* routes.py 37-43: the query parameters
RiskTolerances == {"conservative", "moderate", "aggressive"}
InvestmentHorizons == {"short_term", "medium_term", "long_term"}
MinAlphaArgs == {Num(-3), Num(0), Num(3)}
MaxVolatilityArgs == {NoneV, Num(0), Num(15)}

InitAdvisor ==
    /\ \E funds \in AnalyzedFunds, risk_tolerance \in RiskTolerances,
          investment_horizon \in InvestmentHorizons,
          min_alpha \in MinAlphaArgs, max_volatility \in MaxVolatilityArgs :
        advice = [pc |-> "start", funds |-> funds,
                  risk_tolerance |-> risk_tolerance,
                  investment_horizon |-> investment_horizon,
                  min_alpha |-> min_alpha,
                  max_volatility |-> max_volatility,
                  result |-> <<>>]
    /\ MetricsIdle
    /\ NiftyIdle
    /\ ComparatorIdle
    /\ ScoreIdle
    /\ BatchIdle
    /\ ConcIdle
    /\ BenchIdle

\* the call writes nothing but its own locals and result
AdvisorFrame ==
    UNCHANGED <<scoreVars, batchVars, concVars, benchVars, df, metric_call,
                nifty, comparatorVars>>

\* smart_advisor.py 22: analyze_funds_with_benchmark() raises (a request
\* failed); nothing in get_smart_recommendations catches it
AnalyzeFundsRaises ==
    /\ advice.pc = "start"
    /\ advice' = [advice EXCEPT !.pc = "raised"]
    /\ AdvisorFrame

\* smart_advisor.py 22-82
GetSmartRecommendations ==
    /\ advice.pc = "start"
    /\ advice' = [advice EXCEPT
                    !.pc = "returned",
                    !.result = get_smart_recommendations(advice.funds,
                        advice.risk_tolerance, advice.investment_horizon,
                        advice.min_alpha, advice.max_volatility)]
    /\ AdvisorFrame

NextAdvisor == AnalyzeFundsRaises \/ GetSmartRecommendations

SpecAdvisor == InitAdvisor /\ [][NextAdvisor]_vars

\* the values of one metric over the recommended funds that have one
DefinedValues(funds, key) ==
    SelectSeq([i \in 1..Len(funds) |-> funds[i][key]], IsNum)

AverageOfDefined(funds, key) ==
    LET xs == DefinedValues(funds, key)
    IN  Round(FDiv(FSum(xs), Num(Len(xs))), 2)

\* C18: in the analysis summary the averages of alpha, volatility and Sharpe
\* over the top funds are taken over the funds that have the metric only; a
\* fund without it is left out of the average and does not count as zero.
C18_AveragesSkipUndefined ==
    advice.pc = "returned" =>
        LET top == advice.result.recommended_funds
            summary == advice.result.analysis_summary
        IN  /\ DefinedValues(top, "alpha_pct") # <<>> =>
                   summary.average_alpha_pct
                       = AverageOfDefined(top, "alpha_pct")
            /\ DefinedValues(top, "volatility_pct") # <<>> =>
                   summary.average_volatility_pct
                       = AverageOfDefined(top, "volatility_pct")
            /\ DefinedValues(top, "sharpe_ratio") # <<>> =>
                   summary.average_sharpe_ratio
                       = AverageOfDefined(top, "sharpe_ratio")

\* C19: every recommended fund has an alpha_pct, and it is at least
\* min_alpha, whatever min_alpha is (0 and negative values included).
C19_RecommendedAlphaAtLeastMin ==
    advice.pc = "returned" =>
        \A i \in 1..Len(advice.result.recommended_funds) :
            LET fund == advice.result.recommended_funds[i]
            IN  /\ IsNum(fund.alpha_pct)
                /\ NumGe(fund.alpha_pct, advice.min_alpha)

\* C20: when max_volatility is supplied (any number, 0 included), every
\* recommended fund has a volatility_pct no greater than it.
C20_RecommendedVolatilityAtMostMax ==
    (advice.pc = "returned" /\ advice.max_volatility # NoneV) =>
        \A i \in 1..Len(advice.result.recommended_funds) :
            LET fund == advice.result.recommended_funds[i]
            IN  /\ IsNum(fund.volatility_pct)
                /\ NumGe(advice.max_volatility, fund.volatility_pct)

\* the lower-cased words of  allocation.get('recommendation', '')
LoweredWords(allocation) ==
    {Lower(allocation.recommendation[i]) :
        i \in 1..Len(allocation.recommendation)}

\* C21: with at least one recommended fund, the allocation's recommendation
\* text contains "conservative" for risk_tolerance conservative and "growth"
\* for risk_tolerance aggressive (case-insensitive).
C21_AllocationNamesRiskProfile ==
    (advice.pc = "returned" /\ advice.result.recommended_funds # <<>>) =>
        LET words == LoweredWords(advice.result.portfolio_allocation)
        IN  /\ advice.risk_tolerance = "conservative" =>
                   "conservative" \in words
            /\ advice.risk_tolerance = "aggressive" => "growth" \in words

-----------------------------------------------------------------------------
(* calculate_benchmark_metrics, lines 296-321: the period loop.  A table of *)
(* 365 rows and more is kept in closed form: rows on a regular calendar     *)
(* (daily or weekly) and NAV columns that change by a fixed amount per row. *)

\* benchmark_service.py 297-302
Periods ==
    <<[name |-> "outperformance_1y_pct", days |-> 365],
      [name |-> "outperformance_2y_pct", days |-> 730],
      [name |-> "outperformance_3y_pct", days |-> 1095],
      [name |-> "outperformance_5y_pct", days |-> 1825]>>

\* row i (1-based) of the aligned table
RowDate(merged, i) == merged.first_date + merged.stride * (i - 1)
NavAt(col, i) == Num(col.start + col.slope * (i - 1))

PeriodRows == {2, 364, 365, 366, 730, 1095, 1824, 1825}
PeriodStrides == {1, 7}
FundColumns == {[start |-> 100, slope |-> 0], [start |-> 100, slope |-> 1],
                [start |-> 4000, slope |-> -2]}
BenchColumns == {[start |-> 18000, slope |-> 0], [start |-> 18000, slope |-> 5]}

LongTables ==
    {[rows |-> n, first_date |-> 1, stride |-> s, nav_fund |-> f,
      nav_bench |-> b] :
        n \in PeriodRows, s \in PeriodStrides, f \in FundColumns,
        b \in BenchColumns}

\* lines 304-319 for one period: the two legs are annualised with
\* years = days / 365.25, days being the number of rows of the sub-window
PeriodOutperformance(merged, days) ==
    IF merged.rows < days THEN Absent
    ELSE LET first == merged.rows - days + 1
             fund_start == NavAt(merged.nav_fund, first)
             fund_end == NavAt(merged.nav_fund, merged.rows)
             bench_start == NavAt(merged.nav_bench, first)
             bench_end == NavAt(merged.nav_bench, merged.rows)
         IN  IF NumGt(fund_start, Num(0)) /\ NumGt(bench_start, Num(0))
             THEN [k |-> "difference",
                   fund_cagr |-> Annualized(FDiv(fund_end, fund_start), days),
                   bench_cagr |-> Annualized(FDiv(bench_end, bench_start),
                                             days)]
             ELSE Absent

InitPeriods ==
    /\ period_call \in {[pc |-> "start", merged |-> t, keys |-> <<>>] :
                           t \in LongTables}
    /\ risk_adjusted = [outcome |-> "idle"]
    /\ MetricsIdle
    /\ NiftyIdle
    /\ AdvisorIdle
    /\ ScoreIdle
    /\ BatchIdle
    /\ ConcIdle
    /\ BenchIdle

\* lines 296-321: for period_name, days in periods.items()
PeriodLoop ==
    /\ period_call.pc = "start"
    /\ period_call' =
           [period_call EXCEPT
              !.pc = "returned",
              !.keys = [j \in 1..Len(Periods) |->
                           PeriodOutperformance(period_call.merged,
                                                Periods[j].days)]]
    /\ UNCHANGED <<risk_adjusted, df, metric_call, nifty, advice, scoreVars,
                   batchVars, concVars, benchVars>>

NextPeriods == PeriodLoop

SpecPeriods == InitPeriods /\ [][NextPeriods]_vars

\* the calendar days between the first and the last row of the last n rows
ElapsedDays(merged, n) ==
    RowDate(merged, merged.rows) - RowDate(merged, merged.rows - n + 1)

\* C22: the outperformance of a period of N rows (365, 730, 1095, 1825) is
\* reported exactly when the aligned table has at least N rows, from the first
\* and last of the last N rows, each leg annualised over the calendar time
\* between those two rows divided by 365.25.
C22_PeriodUsesElapsedTime ==
    period_call.pc = "returned" =>
        \A j \in 1..Len(Periods) :
            LET merged == period_call.merged
                n == Periods[j].days
                key == period_call.keys[j]
                first == merged.rows - n + 1
            IN  /\ key # Absent <=> merged.rows >= n
                /\ key # Absent =>
                     /\ key.fund_cagr =
                            Annualized(FDiv(NavAt(merged.nav_fund, merged.rows),
                                            NavAt(merged.nav_fund, first)),
                                       ElapsedDays(merged, n))
                     /\ key.bench_cagr =
                            Annualized(FDiv(NavAt(merged.nav_bench, merged.rows),
                                            NavAt(merged.nav_bench, first)),
                                       ElapsedDays(merged, n))

-----------------------------------------------------------------------------
(* calculate_risk_adjusted_metrics: benchmark_service.py 324-393, called    *)
(* after calculate_benchmark_metrics on the same two frames                 *)
(* (fund_analysis_service.py 45-46)                                         *)

NoRiskMetrics ==
    [treynor_ratio |-> Absent, sortino_ratio |-> Absent,
     calmar_ratio |-> Absent, beta |-> Absent]

\* lines 348-362: the local beta and the Treynor ratio
Treynor(fund_returns, bench_returns) ==
    LET min_len == Min(Len(fund_returns), Len(bench_returns))
        fund_ret_aligned == LastN(fund_returns, min_len)
        bench_ret_aligned == LastN(bench_returns, min_len)
        fund_mean_return == RMul(Mean(fund_returns), Num(TRADING_DAYS))
    IN  IF NumGt(Var(bench_ret_aligned), Num(0))
        THEN LET beta == Beta(fund_ret_aligned, bench_ret_aligned)
             IN  IF beta.n # 0
                 THEN [beta |-> beta,
                       treynor_ratio |->
                           Round(RDiv(RSub(fund_mean_return, RISK_FREE_RATE),
                                      beta), 3)]
                 ELSE [beta |-> beta, treynor_ratio |-> Absent]
        ELSE [beta |-> Absent, treynor_ratio |-> Absent]

\* lines 365-370: (mean - rf) / (std of the negative returns * sqrt(252)); the
\* std of a single value is NaN and  NaN > 0  is False
Sortino(fund_returns) ==
    LET negative_returns == SelectSeq(fund_returns, LAMBDA x : x.n < 0)
        fund_mean_return == RMul(Mean(fund_returns), Num(TRADING_DAYS))
    IN  IF Len(negative_returns) = 0 THEN Absent
        ELSE IF Len(negative_returns) = 1 THEN Absent
        ELSE LET v == SampleVar(negative_returns)
             IN  IF v.n = 0 THEN Absent
                 ELSE [k |-> "over_root",
                       num |-> RSub(fund_mean_return, RISK_FREE_RATE),
                       of |-> RMul(v, Num(TRADING_DAYS))]

\* lines 373-391: CAGR over the merged span divided by the largest drawdown
Calmar(merged) ==
    LET start_value == merged[1].nav_fund
        end_value == merged[Len(merged)].nav_fund
        days == merged[Len(merged)].date - merged[1].date
    IN  IF days > 0 /\ NumGt(start_value, Num(0))
        THEN LET cagr == Annualized(FDiv(end_value, start_value), days)
                 low == calculate_max_drawdown(
                            [j \in 1..Len(merged) |->
                                [nav |-> merged[j].nav_fund]])
                 max_drawdown == FAbs(low)
             IN  IF NumGt(max_drawdown, Num(0))
                 THEN IF IsNum(cagr)
                      THEN Round(RDiv(cagr, max_drawdown), 3)
                      ELSE [k |-> "calmar", cagr |-> cagr,
                            max_drawdown |-> max_drawdown]
                 ELSE Absent
        ELSE Absent

\* Variant that computes the Sortino ratio inside the block of the beta guard
calculate_risk_adjusted_metrics_nested(fund, bench) ==
    IF fund = <<>> \/ bench = <<>> THEN NoRiskMetrics
    ELSE LET merged == Merge(fund, bench)
         IN  IF Len(merged) < 2 THEN NoRiskMetrics
             ELSE LET fund_returns == pct_change([j \in 1..Len(merged) |->
                                                     merged[j].nav_fund])
                      bench_returns == pct_change([j \in 1..Len(merged) |->
                                                      merged[j].nav_bench])
                      t == IF Len(fund_returns) > 1
                           THEN Treynor(fund_returns, bench_returns)
                           ELSE [beta |-> Absent, treynor_ratio |-> Absent]
                  IN  [treynor_ratio |-> t.treynor_ratio,
                       sortino_ratio |->
                           IF Len(fund_returns) > 1 /\ t.beta # Absent
                           THEN Sortino(fund_returns) ELSE Absent,
                       calmar_ratio |-> Calmar(merged),
                       beta |-> t.beta]

\* The whole call, lines 324-393.  beta is the call's local of line 359.
calculate_risk_adjusted_metrics(fund, bench) ==
    IF fund = <<>> \/ bench = <<>> THEN NoRiskMetrics
    ELSE LET merged == Merge(fund, bench)
         IN  IF Len(merged) < 2 THEN NoRiskMetrics
             ELSE LET fund_returns == pct_change([j \in 1..Len(merged) |->
                                                     merged[j].nav_fund])
                      bench_returns == pct_change([j \in 1..Len(merged) |->
                                                      merged[j].nav_bench])
                      t == IF Len(fund_returns) > 1
                           THEN Treynor(fund_returns, bench_returns)
                           ELSE [beta |-> Absent, treynor_ratio |-> Absent]
                  IN  [treynor_ratio |-> t.treynor_ratio,
                       sortino_ratio |->
                           IF Len(fund_returns) > 1
                           THEN Sortino(fund_returns) ELSE Absent,
                       calmar_ratio |-> Calmar(merged),
                       beta |-> t.beta]

\* NAV steps of the risk universe: a fall to a half (-1) or to a quarter (-2)
\* of the previous NAV, a rise to its double (1), or no change
StepSeqsOver(len, values) ==
    IF len <= 1 THEN {<<>>}
    ELSE LET steps == len - 1
             flat == IF steps > MovingSteps THEN steps - MovingSteps ELSE 0
             tails == {tl \in [(flat + 1)..steps -> values] :
                          Cardinality({j \in DOMAIN tl : tl[j] # 0})
                              <= MaxMoves}
         IN  {[j \in 1..steps |-> IF j <= flat THEN 0 ELSE tl[j]] :
                 tl \in tails}

RiskFundLengths == {0, 1, 2, 3, MaxLongRows}
RiskBenchLengths == {0, 3, MaxLongRows}

RiskFundSeries ==
    UNION {{SeriesOf(len, 1, stride, st) :
              st \in StepSeqsOver(len, {-2, -1, 0, 1}), stride \in Strides}
           : len \in RiskFundLengths}

RiskBenchmarkSeries ==
    UNION {{SeriesOf(len, 1, 1, st) : st \in StepSeqs(len)}
           : len \in RiskBenchLengths}

InitRisk ==
    /\ fund_df \in RiskFundSeries
    /\ benchmark_df \in RiskBenchmarkSeries
    /\ benchmark_metrics = [outcome |-> "idle"]
    /\ risk_adjusted = [outcome |-> "idle"]
    /\ period_call = [pc |-> "idle"]
    /\ rng = UnseededRng
    /\ calls = <<>>
    /\ ScoreIdle
    /\ BatchIdle
    /\ MetricsIdle
    /\ NiftyIdle
    /\ AdvisorIdle

\* fund_analysis_service.py 46, after line 45 has returned
CalculateRiskAdjustedMetrics ==
    /\ benchmark_metrics.outcome = "returned"
    /\ risk_adjusted.outcome = "idle"
    /\ risk_adjusted' =
           [outcome |-> "returned",
            bag |-> calculate_risk_adjusted_metrics(fund_df, benchmark_df)]
    /\ UNCHANGED <<period_call, df, metric_call, nifty, advice, scoreVars,
                   batchVars, concVars, benchVars>>

NextRisk == CalculateBenchmarkMetrics \/ CalculateRiskAdjustedMetrics

SpecRisk == InitRisk /\ [][NextRisk]_vars

\* C23: whenever both beta and treynor_ratio are reported for a fund, the
\* beta that divides the Treynor numerator is the reported beta (to the 3
\* decimals it is reported with), on the exact and on the approximate path.
C23_TreynorUsesReportedBeta ==
    (/\ risk_adjusted.outcome = "returned"
     /\ benchmark_metrics.bag.beta # Absent
     /\ risk_adjusted.bag.treynor_ratio # Absent) =>
        benchmark_metrics.bag.beta = Round(risk_adjusted.bag.beta, 3)

\* the inner join of the two frames and the return columns of the call
RiskMerged == Merge(fund_df, benchmark_df)
RiskFundReturns ==
    pct_change([j \in 1..Len(RiskMerged) |-> RiskMerged[j].nav_fund])
RiskBenchReturns ==
    pct_change([j \in 1..Len(RiskMerged) |-> RiskMerged[j].nav_bench])
RiskNegativeReturns == SelectSeq(RiskFundReturns, LAMBDA x : x.n < 0)
RiskFalls ==
    \E i, j \in 1..Len(RiskMerged) :
        i < j /\ NumLt(RiskMerged[j].nav_fund, RiskMerged[i].nav_fund)

\* C25: each ratio is reported exactly when its own denominator is defined
\* and not zero: treynor_ratio when the benchmark variance is positive and the
\* covariance (hence beta) is not 0, sortino_ratio when at least two negative
\* returns differ, calmar_ratio when the NAV ever fell below an earlier value;
\* no ratio's absence removes another.
C25_RatiosGuardedIndependently ==
    (risk_adjusted.outcome = "returned" /\ Len(RiskMerged) >= 2) =>
        LET bag == risk_adjusted.bag
        IN  /\ bag.treynor_ratio # Absent <=>
                   /\ Len(RiskFundReturns) > 1
                   /\ Var(RiskBenchReturns).n > 0
                   /\ Cov(RiskFundReturns, RiskBenchReturns).n # 0
            /\ bag.sortino_ratio # Absent <=>
                   \E i, j \in 1..Len(RiskNegativeReturns) :
                       RiskNegativeReturns[i] # RiskNegativeReturns[j]
            /\ bag.calmar_ratio # Absent <=> RiskFalls
            /\ bag.treynor_ratio \notin {NaN, PosInf, NegInf}
            /\ bag.sortino_ratio \notin {NaN, PosInf, NegInf}
            /\ bag.calmar_ratio \notin {NaN, PosInf, NegInf}

\* C25 witness: a constant benchmark removes Treynor while Sortino and Calmar,
\* whose own guards pass, are reported
C25_Witness ==
    /\ risk_adjusted.outcome = "returned"
    /\ Len(RiskMerged) >= 3
    /\ Var(RiskBenchReturns).n = 0
    /\ risk_adjusted.bag.treynor_ratio = Absent
    /\ risk_adjusted.bag.sortino_ratio # Absent
    /\ risk_adjusted.bag.calmar_ratio # Absent

\* The fund returns of the aligned table are all equal (at least two of them)
ZeroVarianceFund ==
    /\ Len(AlignedTable) >= 3
    /\ \A j \in 2..(Len(AlignedTable) - 1) :
           RDiv(AlignedTable[j + 1].nav_fund, AlignedTable[j].nav_fund)
               = RDiv(AlignedTable[2].nav_fund, AlignedTable[1].nav_fund)

\* C24: when the fund or the benchmark return sequence is constant, the bag
\* returned by calculate_benchmark_metrics holds no undefined correlation: the
\* key is absent or None.
C24_ZeroVarianceCorrelationNoValue ==
    (/\ benchmark_metrics.outcome = "returned"
     /\ ZeroVarianceFund \/ ZeroVarianceBenchmark) =>
        benchmark_metrics.bag.correlation \in {Absent, NoneV}

\* the values handed to the loop iteration that built a record
ResponseOf(result) == fetched[result.scheme_code]

\* C26: in both modes a record's Sharpe ratio is computed from the 3-year
\* CAGR when it is defined and from the full-period CAGR only otherwise, so
\* it is None only when both CAGRs are None or the volatility is None or 0.
C26_SharpePrefersThreeYearCagr ==
    \A k \in 1..Len(results) :
        LET resp == ResponseOf(results[k])
        IN  /\ resp.cagr_3y # NoneV =>
                   results[k].sharpe_ratio
                       = RoundSharpe(calculate_sharpe(resp.cagr_3y, resp.vol))
            /\ resp.cagr_3y = NoneV =>
                   results[k].sharpe_ratio
                       = RoundSharpe(calculate_sharpe(resp.cagr_all, resp.vol))
            /\ results[k].sharpe_ratio = NoneV =>
                   \/ resp.cagr_3y = NoneV /\ resp.cagr_all = NoneV
                   \/ resp.vol = NoneV
                   \/ NumEq(resp.vol, Num(0))

\* C26 witness: a returned batch with one record whose Sharpe ratio comes from
\* a 3-year CAGR that differs from the full-period CAGR, and one record that
\* fell back to the full-period CAGR.
C26_Witness ==
    /\ pc = "done"
    /\ \E k \in 1..Len(results) :
           /\ ResponseOf(results[k]).cagr_3y \notin
                  {NoneV, ResponseOf(results[k]).cagr_all}
           /\ IsNum(results[k].sharpe_ratio)
    /\ \E k \in 1..Len(results) :
           /\ ResponseOf(results[k]).cagr_3y = NoneV
           /\ IsNum(results[k].sharpe_ratio)

-----------------------------------------------------------------------------
(* The ranking pipeline on funds whose Sharpe ratio is close to the         *)
(* scorer's threshold 1: (cagr_3y - 0.07) / 0.1 is 0.996, 1.004 or 2.0      *)

MaxLabelFunds == 2

LabelResponses(m) ==
    {ErrorResponse, OkResponse("empty", NoneV, NoneV, NoneV, NoBench)}
    \cup {OkResponse("more", Rat(1, 10), c3, Rat(17, 100), b) :
            c3 \in {Rat(106, 625), Rat(213, 1250), Rat(27, 100)},
            b \in IF m = "benchmark" THEN BenchBags ELSE {NoBench}}

NextLabel ==
    \/ FetchAllFundsFails
    \/ FetchAllFunds(MaxLabelFunds)
    \/ AnalyzeFund(LabelResponses(mode))
    \/ SortAndReturn

SpecLabel == InitBatch /\ [][NextLabel]_vars

\* the metrics a record reports, as a bag for the scorer
ReportedMetrics(result) ==
    [EmptyBag EXCEPT !.alpha_pct = result.alpha_pct,
                     !.information_ratio = result.information_ratio,
                     !.treynor_ratio = result.treynor_ratio,
                     !.sharpe_ratio = result.sharpe_ratio]

\* C29: for every record of a benchmark-mode batch, the scorer applied to the
\* metrics the record reports (its 2-decimal sharpe_ratio included) yields the
\* record's recommendation.
C29_RecommendationMatchesReportedMetrics ==
    mode = "benchmark" =>
        \A k \in 1..Len(results) :
            get_benchmark_recommendation(ReportedMetrics(results[k])).label
                = results[k].recommendation

\* C30: calculate_volatility returns None or a defined non-negative number;
\* on a series of positive NAVs with at least 2 observations (exactly 2
\* included) the result is a defined number, never NaN or an infinity.
C30_VolatilityDefinedFromTwoRows ==
    (metric_call.fn = "calculate_volatility" /\ PositiveSeries) =>
        LET vol == metric_call.result
        IN  /\ \/ vol = NoneV
               \/ IsNum(vol) /\ vol.n >= 0
               \/ vol.k = "root" /\ vol.sign = 1
            /\ Len(df) >= 2 => vol # NoneV

-----------------------------------------------------------------------------
(* The aligned table of calculate_benchmark_metrics, stated on the two      *)
(* series the call was given                                                *)

DatesOf(frame) == {frame[j].date : j \in 1..Len(frame)}

Earliest(dates) == CHOOSE d \in dates : \A e \in dates : d <= e
Latest(dates) == CHOOSE d \in dates : \A e \in dates : d >= e

\* [max(minA, minB), min(maxA, maxB)]
UsableWindow ==
    [lo |-> MaxDate(Earliest(DatesOf(fund_df)), Earliest(DatesOf(benchmark_df))),
     hi |-> MinDate(Latest(DatesOf(fund_df)), Latest(DatesOf(benchmark_df)))]

PointsInWindow(frame) ==
    Cardinality({d \in DatesOf(frame) :
                    d >= UsableWindow.lo /\ d <= UsableWindow.hi})

ThinWindow ==
    \/ PointsInWindow(fund_df) < MIN_OVERLAP
    \/ PointsInWindow(benchmark_df) < MIN_OVERLAP

Ascending(dates) == \A j \in 1..(Len(dates) - 1) : dates[j] < dates[j + 1]

SeqRange(xs) == {xs[j] : j \in 1..Len(xs)}

\* C27: alignment in calculate_benchmark_metrics -- the usable window is
\* [max(minA, minB), min(maxA, maxB)]; if either series restricted to that
\* window has fewer than 10 points the approximate path is taken and the
\* aligned table has exactly one row per fund observation on the fund's own
\* dates (a fund of a single observation ends the call with the empty bag
\* before a table exists); otherwise the aligned table has exactly one row
\* per date present in both series, in ascending date order, and no row for a
\* date missing from either series.
C27_AlignedTableRows ==
    (benchmark_metrics.outcome = "returned"
        /\ fund_df # <<>> /\ benchmark_df # <<>>) =>
        IF ThinWindow
        THEN /\ benchmark_metrics.path = "approximate"
             /\ benchmark_metrics.built <=> Len(fund_df) >= 2
             /\ benchmark_metrics.built =>
                    benchmark_metrics.merged_dates
                        = [j \in 1..Len(fund_df) |-> fund_df[j].date]
             /\ ~benchmark_metrics.built =>
                    benchmark_metrics.bag = NoMetrics
        ELSE /\ benchmark_metrics.path = "exact"
             /\ benchmark_metrics.built
             /\ Ascending(benchmark_metrics.merged_dates)
             /\ SeqRange(benchmark_metrics.merged_dates)
                    = DatesOf(fund_df) \cap DatesOf(benchmark_df)

\* C27 witness: an inner join that has rows and drops a fund date the
\* benchmark lacks
C27_Witness ==
    /\ benchmark_metrics.outcome = "returned"
    /\ fund_df # <<>> /\ benchmark_df # <<>>
    /\ ~ThinWindow
    /\ benchmark_metrics.merged_rows > 0
    /\ DatesOf(fund_df) \ DatesOf(benchmark_df) # {}
    /\ DatesOf(benchmark_df) \ DatesOf(fund_df) # {}

\* Daily returns of a series, and what the benchmark's "own statistical
\* parameters" would be: their mean and their (squared) volatility
ReturnsOf(frame) == pct_change([j \in 1..Len(frame) |-> frame[j].nav])

DifferentReturnStatistics(a, b) ==
    /\ Len(a) >= 3 /\ Len(b) >= 3
    /\ \/ Mean(ReturnsOf(a)) # Mean(ReturnsOf(b))
       \/ SampleVar(ReturnsOf(a)) # SampleVar(ReturnsOf(b))

\* C28: on the approximate path the synthesized comparison values are derived
\* from the supplied benchmark's own statistics -- for the same fund, any
\* other benchmark series that also triggers the fallback and has a different
\* return mean or volatility yields different synthesized values.
C28_SynthesizedDependsOnBenchmark ==
    (benchmark_metrics.outcome = "returned"
        /\ benchmark_metrics.path = "approximate"
        /\ benchmark_metrics.built
        /\ benchmark_metrics.bag # NoMetrics) =>
        \A other \in BenchmarkSeries :
            LET res == calculate_benchmark_metrics(fund_df, other)
            IN  (res.path = "approximate"
                    /\ DifferentReturnStatistics(benchmark_df, other)) =>
                    \/ res.synthesized # benchmark_metrics.synthesized
                    \/ res.bag # benchmark_metrics.bag

=============================================================================
